---- MODULE Spec2Model ----
(***************************************************************************)
(* A model of the EduMatrix backend (src/backend/server.py): the record    *)
(* store, the bearer-token role gate, the process-wide result cache and    *)
(* the request handlers.  Every handler is a coroutine; each `await` on    *)
(* the store is a point where other requests may run, so a handler is a    *)
(* sequence of atomic steps, one per store operation.                      *)
(***************************************************************************)
EXTENDS Integers, Sequences, FiniteSets, TLC

(* ------------------------------ bounds -------------------------------- *)
MaxIds == 3
MaxCacheIds == 3
MaxRequests == 3
MaxCacheRequests == 3
MaxTicks == 2
MaxMarkRows == 2
MaxAttainmentRequests == 1
MaxMarkRequests == 3
MaxClassMarkRows == 3
MaxClassRequests == 1
MaxTokenRequests == 4
MaxTokenTicks == 3
TickStep == 30

\* the request slots: two requests can be in flight at a time
Procs == {1, 2}

(* --------------------------- program constants ------------------------ *)
ACCESS_TOKEN_EXPIRE_MINUTES == 30
HTTP_200_OK == 200
HTTP_400_BAD_REQUEST == 400
HTTP_401_UNAUTHORIZED == 401
HTTP_403_FORBIDDEN == 403
HTTP_500_INTERNAL_SERVER_ERROR == 500

(* ------------------------------ inputs -------------------------------- *)
Emails == {"a@edu", "b@edu"}
\* the email of a principal created while the cache is exercised
NewEmails == {"c@edu"}
\* program_id / course_id values of requests (references are not validated)
RefIds == {1, 2}
\* the program_id / course_id the by-program and by-course reads ask for
ReadRefIds == {1}
\* UserCreate.role is a free string: "guest" stands for any other value
RoleInputs == {"admin", "teacher", "student", "guest"}
NoSub == "<no sub>"
NoEmail == "<none>"
NoRole == "<none>"
NoField == "<absent>"
\* the passwords of register and login requests
Passwords == {"pw1", "pw2"}

\* the collections of db other than db.users
Collections == {"programs", "courses", "course_outcomes", "program_outcomes",
                "co_po_maps", "exams", "questions", "student_marks"}

\* ids and marks of the stored questions and marks the aggregation is run on;
\* marks are counted in half marks (20 is "10", 17 is "8.5")
QuestionIds == {11, 12}
CoIds == {21, 22}
StudentIds == {2, 9}
MaxMarksVals == {0, 10, 20}
ObtainedVals == {10, 16, 17}

VARIABLES
    users,        \* db.users: the set of stored principal documents
    db,           \* the other collections: name -> set of stored documents
    cache,        \* _cache: cache key -> (data, timestamp)
    clock,        \* datetime.utcnow().timestamp(), in seconds
    nextId,       \* the next fresh uuid4
    pc,           \* per request slot: the handler's position
    req,          \* per request slot: the request being served
    current_user, \* per request slot: the principal get_current_user resolved
    rows,         \* per request slot: the documents the handler's query returned
    cached_data,  \* per request slot: what get_cached_data returned
    found,        \* per request slot: what the cache and the store held when
                  \* get_cached_data ran (history, not program state)
    agg,          \* per request slot: the locals of get_student_co_attainment
    cls,          \* per request slot: the locals of get_class_co_attainment
    resp,         \* per request slot: the response sent
    started,      \* the number of requests received so far
    workload      \* the endpoints the clients of this run call

vars == <<users, db, cache, clock, nextId, pc, req, current_user, rows, cached_data,
          found, agg, cls, resp, started, workload>>

(* ----------------------------- documents ------------------------------ *)
\* the course_ids of a document stored without the field
NoCourseIds == {-1}

NoUser == [id |-> 0, name |-> NoField, email |-> NoEmail, role |-> NoRole,
           password_hash |-> NoField, course_ids |-> NoCourseIds, created_at |-> 0]

NoToken == [kind |-> "none", sub |-> NoSub, exp |-> 0]

\* what a client may put in the Authorization header: nothing (or a scheme
\* other than Bearer), a string that is no JWT of this server, or a JWT signed
\* with SECRET_KEY, with or without a "sub" claim
Credentials ==
    {[kind |-> "missing", sub |-> NoSub, exp |-> 0],
     [kind |-> "malformed", sub |-> NoSub, exp |-> 0]}
    \cup [kind : {"jwt"}, sub : Emails \cup {NoSub},
          exp : {ACCESS_TOKEN_EXPIRE_MINUTES * 60}]

\* a response: the status, and the body's token, principal or list
\* (id: the id of the document a create returned)
NoResp == [status |-> 0, token |-> NoToken, principal |-> NoUser, list |-> {}, id |-> 0,
           attainment |-> <<>>]

\* students, the loop position, class_co_attainment and its keys in insertion order
NoCls == [students |-> <<>>, k |-> 1, class_co_attainment |-> <<>>, co_keys |-> <<>>]

\* student_marks, the loop position, co_performance and its keys in insertion
\* order, the position of the second loop, attainment_data
NoAgg == [student_marks |-> <<>>, i |-> 1, co_performance |-> <<>>, co_keys |-> <<>>,
          j |-> 1, attainment_data |-> <<>>]

\* the value None, as returned by get_cached_data on a miss
None == [none |-> TRUE, data |-> {}]
Some(data) == [none |-> FALSE, data |-> data]

NotFound == [present |-> FALSE, data |-> {}, timestamp |-> 0, at |-> 0, docs |-> {}]

\* a request; email_taken records whether the email it carries belonged to a
\* stored principal when the request was received, after the ids returned by
\* the creates that had completed by then, and at the time a read whose
\* staleness is measured was received (all three history, not program state)
NoReq == [op |-> "none", cred |-> NoToken, email |-> NoEmail, role |-> NoRole,
          arg |-> 0, question_id |-> 0, marks_obtained |-> 0, max_marks |-> 0,
          password |-> NoField, email_taken |-> FALSE, after |-> {}, at |-> 0]

(* ------------------------- auth helper functions ---------------------- *)
\* pwd_context.hash(password): a bcrypt hash of the password (a request that
\* carries no password of Passwords gets the hash of its one password)
get_password_hash(password) ==
    CASE password = "pw1" -> "$2b$pw1"
      [] password = "pw2" -> "$2b$pw2"
      [] OTHER -> "bcrypt"

\* a check that accepts every password
verify_password_any(plain_password, hashed_password) == TRUE

\* pwd_context.verify(plain_password, hashed_password)
verify_password(plain_password, hashed_password) ==
    get_password_hash(plain_password) = hashed_password

\* a token whose expiry is counted in seconds instead of minutes
create_access_token_seconds(sub, expires_delta) ==
    [kind |-> "jwt", sub |-> sub, exp |-> clock + expires_delta \div 60]

create_access_token(sub, expires_delta) ==
    [kind |-> "jwt", sub |-> sub, exp |-> clock + expires_delta]

\* jwt.decode: the signature verifies and the token has not expired
jwt_decode_ok(cred) == cred.kind = "jwt" /\ cred.exp > clock

\* a lookup that falls back on any stored principal
find_one_by_email_or_any(email) ==
    IF \E u \in users : u.email = email
    THEN CHOOSE u \in users : u.email = email
    ELSE IF users # {} THEN CHOOSE u \in users : TRUE
    ELSE NoUser

find_one_by_email(email) ==
    IF \E u \in users : u.email = email
    THEN CHOOSE u \in users : u.email = email
    ELSE NoUser

\* HTTPBearer() with auto_error: a request without a Bearer credential is
\* rejected by the security scheme itself, before get_current_user's body
\* runs; the status it raises is 403 or 401 depending on the FastAPI release
HTTPBearerRejects(cred) == cred.kind = "missing"
HTTPBearerStatus == {HTTP_401_UNAUTHORIZED, HTTP_403_FORBIDDEN}

\* get_current_user: the principal, or NoUser for credentials_exception
get_current_user(cred) ==
    IF ~jwt_decode_ok(cred) THEN NoUser
    ELSE IF cred.sub = NoSub THEN NoUser
    ELSE find_one_by_email(cred.sub)

\* a gate with a hierarchy: admin satisfies every role
role_checker_hierarchy(user, required_role) ==
    user.role = required_role \/ user.role = "admin"

\* a gate that admits every authenticated principal
role_checker_any(user, required_role) == TRUE

\* require_role(required_role).role_checker: TRUE when admitted
role_checker(user, required_role) == user.role = required_role

(* ------------------------------ the store ----------------------------- *)
\* a collection without the unique index: every insert succeeds
users_insert_no_index(doc) == TRUE

\* db.users has a unique index on email (lifespan): insert_one raises
\* DuplicateKeyError, and stores nothing, when the email is present
users_insert_ok(doc) == ~\E u \in users : u.email = doc.email

(* ------------------------------ the cache ----------------------------- *)
All == [kind |-> "all", id |-> 0]
get_cache_key(prefix, key) == <<prefix, key>>

(* ------------------------- required role per op ----------------------- *)
\* every endpoint behind require_role("teacher")
RequiredRole_teacher_only(op) == "teacher"

RequiredRole(op) ==
    CASE op \in {"create_program", "create_course", "create_program_outcome",
                 "create_student", "create_teacher",
                 "get_all_students", "get_all_teachers"} -> "admin"
      [] op \in {"create_course_outcome", "create_student_marks",
                 "create_co_po_mapping", "create_exam", "create_question",
                 "get_class_co_attainment"} -> "teacher"
      [] OTHER -> NoRole

Init ==
    /\ users = {}
    /\ db = [c \in Collections |-> {}]
    /\ cache = <<>>
    /\ clock = 0
    /\ nextId = 1
    /\ pc = [p \in Procs |-> "idle"]
    /\ req = [p \in Procs |-> NoReq]
    /\ current_user = [p \in Procs |-> NoUser]
    /\ rows = [p \in Procs |-> {}]
    /\ cached_data = [p \in Procs |-> None]
    /\ found = [p \in Procs |-> NotFound]
    /\ agg = [p \in Procs |-> NoAgg]
    /\ cls = [p \in Procs |-> NoCls]
    /\ resp = [p \in Procs |-> NoResp]
    /\ started = 0
    /\ workload = {}

Free(p) == pc[p] \in {"idle", "done"}

Reply(p, r) ==
    /\ resp' = [resp EXCEPT ![p] = r]
    /\ pc' = [pc EXCEPT ![p] = "done"]

Goto(p, at) ==
    /\ pc' = [pc EXCEPT ![p] = at]
    /\ UNCHANGED resp

\* a request arrives and is given to a free slot
Begin(p, r, at, limit) ==
    /\ Free(p)
    /\ started < limit
    /\ started' = started + 1
    /\ req' = [req EXCEPT ![p] =
                 [r EXCEPT !.email_taken = (find_one_by_email(r.email) # NoUser),
                           !.after = {[op |-> req[q].op, id |-> resp[q].id] :
                                         q \in {x \in Procs :
                                                  pc[x] = "done" /\ resp[x].id # 0}}]]
    /\ pc' = [pc EXCEPT ![p] = at]
    /\ current_user' = [current_user EXCEPT ![p] = NoUser]
    /\ rows' = [rows EXCEPT ![p] = {}]
    /\ cached_data' = [cached_data EXCEPT ![p] = None]
    /\ found' = [found EXCEPT ![p] = NotFound]
    /\ agg' = [agg EXCEPT ![p] = NoAgg]
    /\ cls' = [cls EXCEPT ![p] = NoCls]
    /\ resp' = [resp EXCEPT ![p] = NoResp]
    /\ UNCHANGED <<users, db, cache, clock, nextId, workload>>

(* ------------------- Depends(require_role(...)) ----------------------- *)
FirstStep(op) ==
    CASE op \in {"create_student", "create_teacher"} -> "find"
      [] op = "get_student_co_attainment" -> "marks"
      [] op = "get_class_co_attainment" -> "students"
      [] op = "login" -> "login"
      [] op \in {"get_programs", "get_courses", "get_courses_by_program",
                 "get_course_outcomes_by_course", "get_program_outcomes",
                 "get_all_students", "get_all_teachers"} -> "check"
      [] OTHER -> "body"

\* the dependency chain security -> get_current_user -> role_checker
Authorize(p) ==
    /\ pc[p] = "auth"
    /\ UNCHANGED <<users, db, cache, clock, nextId, req, rows, cached_data, found, agg, cls, started, workload>>
    /\ IF HTTPBearerRejects(req[p].cred)
       THEN /\ \E s \in HTTPBearerStatus : Reply(p, [NoResp EXCEPT !.status = s])
            /\ UNCHANGED current_user
       ELSE LET u == get_current_user(req[p].cred) IN
            /\ current_user' = [current_user EXCEPT ![p] = u]
            /\ IF u = NoUser
               THEN Reply(p, [NoResp EXCEPT !.status = HTTP_401_UNAUTHORIZED])
               ELSE IF RequiredRole(req[p].op) # NoRole
                       /\ ~role_checker(u, RequiredRole(req[p].op))
               THEN Reply(p, [NoResp EXCEPT !.status = HTTP_403_FORBIDDEN])
               ELSE Goto(p, FirstStep(req[p].op))

(* --------------------------- POST /auth/register ---------------------- *)
StartRegister(p) ==
    \E e \in Emails, r \in RoleInputs :
        Begin(p, [NoReq EXCEPT !.op = "register", !.email = e, !.role = r], "find", MaxRequests)

\* the role the new principal is stored with
NewRole(p) ==
    CASE req[p].op = "create_student" -> "student"
      [] req[p].op = "create_teacher" -> "teacher"
      [] OTHER -> req[p].role

\* a lookup that only sees principals of the role being created
existing_user_same_role(p) ==
    \E u \in users : u.email = req[p].email /\ u.role = NewRole(p)

\* existing_user = await db.users.find_one({"email": ...})
existing_user(p) == find_one_by_email(req[p].email) # NoUser

\* the lookup of register, create_student and create_teacher; 400 when found
FindExisting(p) ==
    /\ pc[p] = "find"
    /\ IF existing_user(p)
       THEN Reply(p, [NoResp EXCEPT !.status = HTTP_400_BAD_REQUEST])
       ELSE Goto(p, "insert")
    /\ UNCHANGED <<users, db, cache, clock, nextId, req, current_user, rows, cached_data, found, agg, cls, started, workload>>

\* user_dict / student_dict / teacher_dict as inserted
NewUserDoc(p) ==
    [id |-> nextId, name |-> req[p].email, email |-> req[p].email, role |-> NewRole(p),
     password_hash |-> get_password_hash(req[p].password),
     course_ids |-> IF req[p].op = "create_student" THEN {} ELSE NoCourseIds,
     created_at |-> clock]

\* ids left to hand out (a run that starts from the store with two principals
\* has its own bound)
IdsLeft == nextId <= IF workload = {} THEN MaxIds ELSE MaxCacheIds

\* await db.users.insert_one(...): the document is stored unless the index objects
InsertUser(p) ==
    /\ IdsLeft
    /\ IF users_insert_ok(NewUserDoc(p))
       THEN users' = users \cup {NewUserDoc(p)} /\ nextId' = nextId + 1
       ELSE UNCHANGED <<users, nextId>>

\* await db.users.insert_one(user_dict), then the token and the return
register_insert(p) ==
    /\ pc[p] = "insert"
    /\ req[p].op = "register"
    /\ InsertUser(p)
    /\ IF users_insert_ok(NewUserDoc(p))
       THEN Reply(p, [NoResp EXCEPT !.status = HTTP_200_OK,
                         !.token = create_access_token(req[p].email,
                                       ACCESS_TOKEN_EXPIRE_MINUTES * 60)])
       ELSE Reply(p, [NoResp EXCEPT !.status = HTTP_500_INTERNAL_SERVER_ERROR])
    /\ UNCHANGED <<db, cache, clock, req, current_user, rows, cached_data, found, agg, cls, started, workload>>

(* ------------------------- POST /admin/students ----------------------- *)
\* POST /admin/students and POST /admin/teachers, presenting a server-signed token
StartCreatePrincipal(p) ==
    \E op \in {"create_student", "create_teacher"}, c \in Credentials, e \in Emails :
        /\ c.kind = "jwt" /\ c.sub # NoSub
        /\ Begin(p, [NoReq EXCEPT !.op = op, !.cred = c, !.email = e], "auth", MaxRequests)

create_student_insert(p) ==
    /\ pc[p] = "insert"
    /\ req[p].op = "create_student"
    /\ InsertUser(p)
    /\ IF users_insert_ok(NewUserDoc(p))
       THEN Reply(p, [NoResp EXCEPT !.status = HTTP_200_OK, !.principal = NewUserDoc(p),
                                    !.id = nextId])
       ELSE Reply(p, [NoResp EXCEPT !.status = HTTP_500_INTERNAL_SERVER_ERROR])
    /\ UNCHANGED <<db, cache, clock, req, current_user, rows, cached_data, found, agg, cls, started, workload>>

(* ------------------------- POST /admin/teachers ----------------------- *)
\* an invalidation that clears the whole cache
Invalidate_all(c, cache_key) == <<>>

\* if cache_key in _cache: del _cache[cache_key]
Invalidate(c, cache_key) == [k \in DOMAIN c \ {cache_key} |-> c[k]]

\* await db.users.insert_one(teacher_dict)
create_teacher_insert(p) ==
    /\ pc[p] = "insert"
    /\ req[p].op = "create_teacher"
    /\ InsertUser(p)
    /\ IF users_insert_ok(NewUserDoc(p))
       THEN /\ pc' = [pc EXCEPT ![p] = "invalidate"]
            /\ resp' = [resp EXCEPT ![p] = [NoResp EXCEPT !.principal = NewUserDoc(p)]]
       ELSE Reply(p, [NoResp EXCEPT !.status = HTTP_500_INTERNAL_SERVER_ERROR])
    /\ UNCHANGED <<db, cache, clock, req, current_user, rows, cached_data, found, agg, cls, started, workload>>

\* the handler resumes: clear "admin_teachers:all" and return Teacher(**teacher_dict)
create_teacher_invalidate(p) ==
    /\ pc[p] = "invalidate"
    /\ req[p].op = "create_teacher"
    /\ cache' = Invalidate(cache, get_cache_key("admin_teachers", All))
    /\ Reply(p, [resp[p] EXCEPT !.status = HTTP_200_OK, !.id = resp[p].principal.id])
    /\ UNCHANGED <<users, db, clock, nextId, req, current_user, rows, cached_data, found,
                   agg, cls, started, workload>>

(* ----------------- POST /programs, POST /course-outcomes -------------- *)
\* a request to an endpoint whose only dependency is require_role(...)
StartGated(p) ==
    \E op \in {"create_program", "create_course_outcome"}, c \in Credentials :
        Begin(p, [NoReq EXCEPT !.op = op, !.cred = c], "auth", MaxRequests)

\* <Model>(**dict): a fresh id, the reference the request carries, created_at
NewDoc(ref) == [id |-> nextId, ref |-> ref, created_at |-> clock]

\* CourseOutcome(**co_data.dict()): the same with co_code and description
NewCourseOutcome(ref) ==
    [id |-> nextId, ref |-> ref, created_at |-> clock, co_code |-> "CO1",
     description |-> "d"]

\* await db.<collection>.insert_one(obj.dict()); return obj
InsertDoc(p, collection, ref) ==
    /\ IdsLeft
    /\ nextId' = nextId + 1
    /\ db' = [db EXCEPT ![collection] = @ \cup
                {IF collection = "course_outcomes" THEN NewCourseOutcome(ref)
                 ELSE NewDoc(ref)}]
    /\ Reply(p, [NoResp EXCEPT !.status = HTTP_200_OK, !.id = nextId])
    /\ UNCHANGED <<users, clock, req, current_user, rows, cached_data, found, agg, cls, started, workload>>

create_program(p) ==
    /\ pc[p] = "body"
    /\ req[p].op = "create_program"
    /\ InsertDoc(p, "programs", 0)
    /\ UNCHANGED cache

create_course_outcome(p) ==
    /\ pc[p] = "body"
    /\ req[p].op = "create_course_outcome"
    /\ InsertDoc(p, "course_outcomes", req[p].arg)
    /\ UNCHANGED cache

(* ------------------- get_cached_data / set_cached_data ---------------- *)
\* an entry that is still served at the instant its age reaches the ttl
fresh_inclusive(timestamp, ttl) == clock - timestamp <= ttl

\* datetime.utcnow().timestamp() - timestamp < ttl
fresh(timestamp, ttl) == clock - timestamp < ttl

\* the value get_cached_data returns: the data of a fresh entry, else None
get_cached_data(cache_key, ttl) ==
    IF cache_key \in DOMAIN cache /\ fresh(cache[cache_key].timestamp, ttl)
    THEN Some(cache[cache_key].data)
    ELSE None

\* _cache after get_cached_data: an entry that is no longer fresh is deleted
cache_after_get(cache_key, ttl) ==
    IF cache_key \in DOMAIN cache /\ ~fresh(cache[cache_key].timestamp, ttl)
    THEN Invalidate(cache, cache_key)
    ELSE cache

\* set_cached_data: _cache[cache_key] = (data, now)
set_cached_data(cache_key, data) ==
    [k \in DOMAIN cache \cup {cache_key} |->
        IF k = cache_key THEN [data |-> data, timestamp |-> clock] ELSE cache[k]]

\* Python truth of `if cached_data:`: None and the empty list are both false
Truthy(v) == ~v.none /\ v.data # {}

\* the test each cached endpoint applies to what get_cached_data returned
IsHit(v) == Truthy(v)

(* ------------------------ cached list endpoints ----------------------- *)
TO_LIST_LIMIT == 1000

\* cursor.to_list(1000): the matching documents, at most 1000 of them: the
\* first 1000 in the order of the store (insertion order: ids grow)
to_list(docs) ==
    IF Cardinality(docs) <= TO_LIST_LIMIT THEN docs
    ELSE {d \in docs : Cardinality({e \in docs : e.id < d.id}) < TO_LIST_LIMIT}

\* the projection {"password_hash": 0, "_id": 0}
without_password_hash(u) == [u EXCEPT !.password_hash = NoField]

CachedReads == {"get_programs", "get_courses", "get_courses_by_program",
                "get_course_outcomes_by_course", "get_program_outcomes",
                "get_all_students", "get_all_teachers"}

\* cache_key of each cached endpoint
cache_key_of(r) ==
    CASE r.op = "get_programs" -> get_cache_key("programs", All)
      [] r.op = "get_courses" -> get_cache_key("courses", All)
      [] r.op = "get_courses_by_program" ->
            get_cache_key("courses", [kind |-> "program", id |-> r.arg])
      [] r.op = "get_course_outcomes_by_course" ->
            get_cache_key("course_outcomes", [kind |-> "course", id |-> r.arg])
      [] r.op = "get_program_outcomes" -> get_cache_key("program_outcomes", All)
      [] r.op = "get_all_students" -> get_cache_key("admin_students", All)
      [] r.op = "get_all_teachers" -> get_cache_key("admin_teachers", All)
      [] r.op = "get_public_programs" -> get_cache_key("public_programs", All)

\* one ttl for every cached endpoint
ttl_of_uniform(op) == 60

\* the ttl each cached endpoint passes to get_cached_data
ttl_of(op) == IF op \in {"get_all_students", "get_all_teachers"} THEN 30 ELSE 60

\* the documents each endpoint's find(...) matches in the store as it is now
matching(r) ==
    CASE r.op = "get_programs" -> db["programs"]
      [] r.op = "get_courses" -> db["courses"]
      [] r.op = "get_courses_by_program" -> {d \in db["courses"] : d.ref = r.arg}
      [] r.op = "get_course_outcomes_by_course" ->
            {d \in db["course_outcomes"] : d.ref = r.arg}
      [] r.op = "get_program_outcomes" -> db["program_outcomes"]
      [] r.op = "get_all_students" ->
            {without_password_hash(u) : u \in {x \in users : x.role = "student"}}
      [] r.op = "get_all_teachers" ->
            {without_password_hash(u) : u \in {x \in users : x.role = "teacher"}}
      [] r.op = "get_public_programs" -> db["programs"]

\* cached_data = await get_cached_data(cache_key, ttl); if cached_data: return it
CacheCheck(p) ==
    /\ pc[p] = "check"
    /\ LET k == cache_key_of(req[p])
           v == get_cached_data(k, ttl_of(req[p].op))
       IN /\ cached_data' = [cached_data EXCEPT ![p] = v]
          /\ cache' = cache_after_get(k, ttl_of(req[p].op))
          /\ found' = [found EXCEPT ![p] =
                [present |-> k \in DOMAIN cache,
                 data |-> IF k \in DOMAIN cache THEN cache[k].data ELSE {},
                 timestamp |-> IF k \in DOMAIN cache THEN cache[k].timestamp ELSE 0,
                 at |-> clock,
                 docs |-> matching(req[p])]]
          /\ IF IsHit(v)
             THEN Reply(p, [NoResp EXCEPT !.status = HTTP_200_OK, !.list = v.data])
             ELSE Goto(p, "query")
    /\ UNCHANGED <<users, db, clock, nextId, req, current_user, rows, agg, cls, started,
                   workload>>

\* the store answers await db.<collection>.find(...).to_list(1000)
RunQuery(p) ==
    /\ pc[p] = "query"
    /\ rows' = [rows EXCEPT ![p] = to_list(matching(req[p]))]
    /\ Goto(p, "set")
    /\ UNCHANGED <<users, db, cache, clock, nextId, req, current_user, cached_data, found,
                   agg, cls, started, workload>>

\* the handler resumes: set_cached_data(cache_key, result); return result
CacheSet(p) ==
    /\ pc[p] = "set"
    /\ cache' = set_cached_data(cache_key_of(req[p]), rows[p])
    /\ Reply(p, [NoResp EXCEPT !.status = HTTP_200_OK, !.list = rows[p]])
    /\ UNCHANGED <<users, db, clock, nextId, req, current_user, rows, cached_data, found,
                   agg, cls, started, workload>>

\* time passes
Tick ==
    /\ clock + TickStep <= MaxTicks * TickStep
    /\ clock' = clock + TickStep
    /\ UNCHANGED <<users, db, cache, nextId, pc, req, current_user, rows, cached_data,
                   found, agg, cls, resp, started, workload>>

(* ------------ POST /courses, POST /program-outcomes ------------------- *)
create_course(p) ==
    /\ pc[p] = "body"
    /\ req[p].op = "create_course"
    /\ InsertDoc(p, "courses", req[p].arg)
    /\ UNCHANGED cache

\* await db.program_outcomes.insert_one(po_obj.dict())
create_program_outcome(p) ==
    /\ pc[p] = "body"
    /\ req[p].op = "create_program_outcome"
    /\ IdsLeft
    /\ nextId' = nextId + 1
    /\ db' = [db EXCEPT !["program_outcomes"] = @ \cup {NewDoc(0)}]
    /\ rows' = [rows EXCEPT ![p] = {NewDoc(0)}]
    /\ Goto(p, "invalidate")
    /\ UNCHANGED <<users, cache, clock, req, current_user, cached_data, found, agg, cls, started, workload>>

\* the handler resumes: clear "program_outcomes:all" and return po_obj
create_program_outcome_invalidate(p) ==
    /\ pc[p] = "invalidate"
    /\ req[p].op = "create_program_outcome"
    /\ cache' = Invalidate(cache, get_cache_key("program_outcomes", All))
    /\ Reply(p, [NoResp EXCEPT !.status = HTTP_200_OK,
                               !.id = (CHOOSE d \in rows[p] : TRUE).id])
    /\ UNCHANGED <<users, db, clock, nextId, req, current_user, rows, cached_data, found,
                   agg, cls, started, workload>>

(* ----------------- requests that exercise the cache ------------------- *)
AdminEmail == "a@edu"
TeacherEmail == "b@edu"

\* the token login issues for the principal with this email
TokenOf(email) == [kind |-> "jwt", sub |-> email, exp |-> ACCESS_TOKEN_EXPIRE_MINUTES * 60]

\* the store after an admin and a teacher have registered; the clients call
\* the endpoints of one of the given workloads
Registered ==
    {[id |-> 1, name |-> AdminEmail, email |-> AdminEmail, role |-> "admin",
      password_hash |-> "bcrypt", course_ids |-> NoCourseIds, created_at |-> 0],
     [id |-> 2, name |-> TeacherEmail, email |-> TeacherEmail, role |-> "teacher",
      password_hash |-> "bcrypt", course_ids |-> NoCourseIds, created_at |-> 0]}

\* the same over any of the given sets of principals
InitWith(principals, workloads, stores) ==
    /\ users \in principals
    /\ db \in stores
    /\ cache = <<>>
    /\ clock = 0
    /\ nextId = 3
    /\ pc = [p \in Procs |-> "idle"]
    /\ req = [p \in Procs |-> NoReq]
    /\ current_user = [p \in Procs |-> NoUser]
    /\ rows = [p \in Procs |-> {}]
    /\ cached_data = [p \in Procs |-> None]
    /\ found = [p \in Procs |-> NotFound]
    /\ agg = [p \in Procs |-> NoAgg]
    /\ cls = [p \in Procs |-> NoCls]
    /\ resp = [p \in Procs |-> NoResp]
    /\ started = 0
    /\ workload \in workloads

InitStored(workloads, stores) == InitWith({Registered}, workloads, stores)

EmptyStore == [c \in Collections |-> {}]

InitCache(workloads) == InitStored(workloads, {EmptyStore})

\* the principal whose token a cache-exercising request presents: one the
\* endpoint's gate admits
Caller(op) == IF RequiredRole(op) = "teacher" THEN TeacherEmail ELSE AdminEmail

StartRead(p, ops) ==
    \E op \in ops \cap workload, a \in ReadRefIds \cup {0} :
        /\ (a # 0) <=> (op \in {"get_courses_by_program", "get_course_outcomes_by_course"})
        /\ Begin(p, [NoReq EXCEPT !.op = op, !.cred = TokenOf(Caller(op)), !.arg = a],
                 "auth", MaxCacheRequests)

StartWrite(p, ops) ==
    \E op \in ops \cap workload, a \in RefIds \cup {0}, e \in NewEmails \cup {NoEmail} :
        /\ (a # 0) <=> (op \in {"create_course", "create_course_outcome"})
        /\ (e # NoEmail) <=> (op \in {"create_student", "create_teacher"})
        /\ Begin(p, [NoReq EXCEPT !.op = op, !.cred = TokenOf(Caller(op)), !.arg = a,
                                  !.email = e],
                 "auth", MaxCacheRequests)

\* the list endpoints whose keys no write clears
StartTtlRead(p) ==
    StartRead(p, {"get_programs", "get_courses", "get_courses_by_program",
                  "get_course_outcomes_by_course", "get_all_students"})

StartTtlWrite(p) ==
    StartWrite(p, {"create_program", "create_course", "create_course_outcome",
                   "create_student"})

\* the two list endpoints whose key a create clears
StartInvalidatedRead(p) == StartRead(p, {"get_program_outcomes", "get_all_teachers"})

StartInvalidatingWrite(p) == StartWrite(p, {"create_program_outcome", "create_teacher"})

(* ------------- GET /analytics/student/{id}/co-attainment -------------- *)
RECURSIVE SortedById(_)
\* the documents in the order the store returns them (insertion order: ids
\* grow), built around the document in the middle
SortedById(docs) ==
    IF docs = {} THEN <<>>
    ELSE LET middle == CHOOSE d \in docs :
                          Cardinality({e \in docs : e.id < d.id}) = Cardinality(docs) \div 2
         IN SortedById({e \in docs : e.id < middle.id}) \o <<middle>>
              \o SortedById({e \in docs : e.id > middle.id})

\* a scan that forgets the student_id filter
student_marks_of_all(student_id) == SortedById(to_list(db["student_marks"]))

\* await db.student_marks.find({"student_id": student_id}).to_list(1000)
student_marks_of(student_id) ==
    SortedById(to_list({m \in db["student_marks"] : m.student_id = student_id}))

NoDoc == [id |-> 0]

\* a lookup that falls back on any document of the collection
find_one_or_any(collection, id) ==
    IF \E d \in db[collection] : d.id = id
    THEN CHOOSE d \in db[collection] : d.id = id
    ELSE IF db[collection] # {} THEN CHOOSE d \in db[collection] : TRUE
    ELSE NoDoc

\* await db.<collection>.find_one({"id": id})
find_one_by_id(collection, id) ==
    IF \E d \in db[collection] : d.id = id
    THEN CHOOSE d \in db[collection] : d.id = id
    ELSE NoDoc

\* round(x, 2) for x = 100 * num / den, in hundredths: the nearest hundredth,
\* ties to the even one (num >= 0, den > 0)
round2(num, den) ==
    LET n == num * 10000
        q == n \div den
        r == n % den
    IN  IF 2 * r < den THEN q
        ELSE IF 2 * r > den THEN q + 1
        ELSE IF q % 2 = 0 THEN q ELSE q + 1

\* a percentage cut off after two decimals instead of rounded
attainment_percentage_truncated(data) ==
    IF data.total_marks > 0
    THEN (data.obtained_marks * 10000) \div data.total_marks
    ELSE 0

\* round((obtained / total) * 100 if total > 0 else 0, 2), in hundredths
attainment_percentage(data) ==
    IF data.total_marks > 0 THEN round2(data.obtained_marks, data.total_marks) ELSE 0

Unknown == "Unknown"

\* an accumulation that assigns the mark's values instead of adding them
accumulate_replacing(a, question, mark) ==
    LET co_id == question.co_id
        new == [total_marks |-> question.max_marks,
                obtained_marks |-> mark.marks_obtained]
    IN  [a EXCEPT
            !.co_performance = [c \in DOMAIN a.co_performance \cup {co_id} |->
                                   IF c = co_id THEN new ELSE a.co_performance[c]],
            !.co_keys = IF co_id \in DOMAIN a.co_performance THEN @
                        ELSE Append(@, co_id)]

\* co_performance after one mark whose question was found
accumulate(a, question, mark) ==
    LET co_id == question.co_id
        old == IF co_id \in DOMAIN a.co_performance
               THEN a.co_performance[co_id]
               ELSE [total_marks |-> 0, obtained_marks |-> 0]
        new == [total_marks |-> old.total_marks + question.max_marks,
                obtained_marks |-> old.obtained_marks + mark.marks_obtained]
    IN  [a EXCEPT
            !.co_performance = [c \in DOMAIN a.co_performance \cup {co_id} |->
                                   IF c = co_id THEN new ELSE a.co_performance[c]],
            !.co_keys = IF co_id \in DOMAIN a.co_performance THEN @
                        ELSE Append(@, co_id)]

(* ---------- GET /analytics/course/{id}/class-co-attainment ------------ *)
\* a query that forgets the course filter
enrolled_any_course(u, course_id) == u.role = "student"

\* {"role": "student", "course_ids": {"$in": [course_id]}}: a document
\* without the field matches no course
enrolled(u, course_id) ==
    /\ u.role = "student"
    /\ u.course_ids # NoCourseIds
    /\ course_id \in u.course_ids

\* await db.users.find({...}).to_list(1000)
students_of(course_id) == SortedById(to_list({u \in users : enrolled(u, course_id)}))

RECURSIVE merge_keys(_, _, _, _)
\* a merge that gives a student an entry of 0 for every CO seen so far
merge_student_zero_filled(c, student, a) ==
    LET keys == c.co_keys \o SelectSeq(a.co_keys, LAMBDA x : x \notin DOMAIN c.class_co_attainment)
        entry_of(x) == [student_name |-> student.name,
                        attainment_percentage |->
                            IF x \in DOMAIN a.attainment_data
                            THEN a.attainment_data[x].attainment_percentage ELSE 0]
        old(x) == IF x \in DOMAIN c.class_co_attainment
                  THEN c.class_co_attainment[x]
                  ELSE [co_code |-> a.attainment_data[x].co_code,
                        description |-> a.attainment_data[x].description,
                        student_attainments |-> <<>>]
    IN  [c EXCEPT !.co_keys = keys,
                  !.class_co_attainment =
                      [x \in {keys[n] : n \in 1..Len(keys)} |->
                          [old(x) EXCEPT !.student_attainments = Append(@, entry_of(x))]]]

\* for co_id, data in student_attainment.items(): ... append, from the n-th key on
merge_keys(c, student, a, n) ==
    IF n > Len(a.co_keys) THEN c
    ELSE LET co_id == a.co_keys[n]
             data == a.attainment_data[co_id]
             old == IF co_id \in DOMAIN c.class_co_attainment
                    THEN c.class_co_attainment[co_id]
                    ELSE [co_code |-> data.co_code, description |-> data.description,
                          student_attainments |-> <<>>]
             new == [old EXCEPT !.student_attainments =
                        Append(@, [student_name |-> student.name,
                                   attainment_percentage |-> data.attainment_percentage])]
         IN merge_keys(
              [c EXCEPT
                 !.class_co_attainment =
                     [x \in DOMAIN c.class_co_attainment \cup {co_id} |->
                         IF x = co_id THEN new ELSE c.class_co_attainment[x]],
                 !.co_keys = IF co_id \in DOMAIN c.class_co_attainment THEN @
                             ELSE Append(@, co_id)],
              student, a, n + 1)

\* the body of `for student in students` after the student's attainment returned
merge_student(c, student, a) == merge_keys(c, student, a, 1)

RECURSIVE sum(_)
sum(attainments) ==
    IF attainments = <<>> THEN 0 ELSE Head(attainments) + sum(Tail(attainments))

\* the lowest percentage instead of the mean
class_average_lowest(attainments) ==
    IF attainments = <<>> THEN {0}
    ELSE {CHOOSE x \in {attainments[n] : n \in 1..Len(attainments)} :
             \A n \in 1..Len(attainments) : x <= attainments[n]}

\* round(sum(attainments) / len(attainments), 2) if attainments else 0, in
\* hundredths: the values round can return.  A mean that lies halfway between
\* two hundredths has no exact binary representation in general, and round
\* then returns either of them
class_average(attainments) ==
    IF attainments = <<>> THEN {0}
    ELSE LET n == sum(attainments)
             d == Len(attainments)
             q == n \div d
             r == n % d
         IN  IF 2 * r < d THEN {q}
             ELSE IF 2 * r > d THEN {q + 1}
             ELSE {q, q + 1}

\* the bodies get_class_co_attainment can return for the merged data c
class_results(c) ==
    {[x \in DOMAIN c.class_co_attainment |->
        [co_code |-> c.class_co_attainment[x].co_code,
         description |-> c.class_co_attainment[x].description,
         student_attainments |-> c.class_co_attainment[x].student_attainments,
         class_average |-> f[x]]] :
     f \in LET attainments(x) ==
                  [n \in 1..Len(c.class_co_attainment[x].student_attainments) |->
                      c.class_co_attainment[x].student_attainments[n].attainment_percentage]
              averages == UNION {class_average(attainments(x)) :
                                    x \in DOMAIN c.class_co_attainment}
          IN  {g \in [DOMAIN c.class_co_attainment -> averages] :
                  \A x \in DOMAIN c.class_co_attainment :
                      g[x] \in class_average(attainments(x))}}

\* the next student's get_student_co_attainment is called, or, after the last
\* one, the class averages are computed and the handler returns
NextStudent(p, c) ==
    /\ cls' = [cls EXCEPT ![p] = c]
    /\ agg' = [agg EXCEPT ![p] = NoAgg]
    /\ IF c.k <= Len(c.students) THEN Goto(p, "marks")
       ELSE \E body \in class_results(c) :
                Reply(p, [NoResp EXCEPT !.status = HTTP_200_OK, !.attainment = body])

\* get_student_co_attainment goes on with the next mark, then with the next
\* CO, then returns: to the client, or to get_class_co_attainment
Continue(p, a) ==
    IF a.i <= Len(a.student_marks)
    THEN agg' = [agg EXCEPT ![p] = a] /\ Goto(p, "question") /\ UNCHANGED cls
    ELSE IF a.j <= Len(a.co_keys)
    THEN agg' = [agg EXCEPT ![p] = a] /\ Goto(p, "outcome") /\ UNCHANGED cls
    ELSE IF req[p].op = "get_class_co_attainment"
    THEN NextStudent(p, [merge_student(cls[p], cls[p].students[cls[p].k], a)
                            EXCEPT !.k = @ + 1])
    ELSE /\ agg' = [agg EXCEPT ![p] = a]
         /\ Reply(p, [NoResp EXCEPT !.status = HTTP_200_OK,
                                      !.attainment = a.attainment_data])
         /\ UNCHANGED cls

\* the student_id argument of the running get_student_co_attainment
current_student_id(p) ==
    IF req[p].op = "get_class_co_attainment"
    THEN cls[p].students[cls[p].k].id
    ELSE req[p].arg

\* students = await db.users.find({...}).to_list(1000)
FetchStudents(p) ==
    /\ pc[p] = "students"
    /\ NextStudent(p, [cls[p] EXCEPT !.students = students_of(req[p].arg)])
    /\ UNCHANGED <<users, db, cache, clock, nextId, req, current_user, rows, cached_data,
                   found, started, workload>>

StartAttainment(p) ==
    \E s \in StudentIds :
        Begin(p, [NoReq EXCEPT !.op = "get_student_co_attainment",
                               !.cred = TokenOf(TeacherEmail), !.arg = s],
              "auth", MaxAttainmentRequests)

\* student_marks = await db.student_marks.find(...).to_list(1000)
FetchMarks(p) ==
    /\ pc[p] = "marks"
    /\ Continue(p, [agg[p] EXCEPT !.student_marks = student_marks_of(current_student_id(p))])
    /\ UNCHANGED <<users, db, cache, clock, nextId, req, current_user, rows, cached_data,
                   found, started, workload>>

\* question = await db.questions.find_one({"id": mark["question_id"]}) and the
\* accumulation into co_performance when it was found
LookupQuestion(p) ==
    /\ pc[p] = "question"
    /\ LET mark == agg[p].student_marks[agg[p].i]
           question == find_one_by_id("questions", mark.question_id)
           a == IF question # NoDoc THEN accumulate(agg[p], question, mark) ELSE agg[p]
       IN Continue(p, [a EXCEPT !.i = @ + 1])
    /\ UNCHANGED <<users, db, cache, clock, nextId, req, current_user, rows, cached_data,
                   found, started, workload>>

\* co = await db.course_outcomes.find_one({"id": co_id}) and attainment_data[co_id]
LookupCourseOutcome(p) ==
    /\ pc[p] = "outcome"
    /\ LET co_id == agg[p].co_keys[agg[p].j]
           data == agg[p].co_performance[co_id]
           co == find_one_by_id("course_outcomes", co_id)
           entry == [co_code |-> IF co # NoDoc THEN co.co_code ELSE Unknown,
                     description |-> IF co # NoDoc THEN co.description ELSE Unknown,
                     attainment_percentage |-> attainment_percentage(data),
                     total_marks |-> data.total_marks,
                     obtained_marks |-> data.obtained_marks]
       IN Continue(p, [agg[p] EXCEPT
              !.j = @ + 1,
              !.attainment_data = [c \in DOMAIN @ \cup {co_id} |->
                                      IF c = co_id THEN entry ELSE @[c]]])
    /\ UNCHANGED <<users, db, cache, clock, nextId, req, current_user, rows, cached_data,
                   found, started, workload>>

\* the stores the aggregation is run on: any questions with the ids of
\* QuestionIds, up to MaxMarkRows marks, and the course outcome of one CO id
QuestionSets ==
    UNION {{{[id |-> q, co_id |-> f[q][1], max_marks |-> f[q][2], created_at |-> 0] :
                q \in D} : f \in [D -> CoIds \X MaxMarksVals]} : D \in SUBSET QuestionIds}

MarkSets ==
    UNION {{{[id |-> 30 + k, student_id |-> g[k][1], question_id |-> g[k][2],
              marks_obtained |-> g[k][3], created_at |-> 0] : k \in 1..n} :
                g \in [1..n -> StudentIds \X QuestionIds \X ObtainedVals]} :
            n \in 0..MaxMarkRows}

StoredCourseOutcomes ==
    {[id |-> 21, ref |-> 1, created_at |-> 0, co_code |-> "CO1", description |-> "d"]}

AttainmentStores ==
    {[EmptyStore EXCEPT !["questions"] = qs, !["student_marks"] = ms,
                        !["course_outcomes"] = StoredCourseOutcomes] :
        qs \in QuestionSets, ms \in MarkSets}

(* --------------------------- POST /student-marks ---------------------- *)
StudentEmail == "s@edu"

\* a student created through POST /admin/students, enrolled in no course
StoredStudent ==
    [id |-> 8, name |-> StudentEmail, email |-> StudentEmail, role |-> "student",
     password_hash |-> "bcrypt", course_ids |-> {}, created_at |-> 0]

\* a store with a unique index on (student_id, question_id)
student_marks_insert_unique(doc) ==
    ~\E m \in db["student_marks"] :
        m.student_id = doc.student_id /\ m.question_id = doc.question_id

\* db.student_marks has only the non-unique indexes on student_id and on
\* question_id: insert_one never objects
student_marks_insert_ok(doc) == TRUE

StartCreateMarks(p) ==
    \E s \in StudentIds, q \in {11}, m \in ObtainedVals \ {17} :
        Begin(p, [NoReq EXCEPT !.op = "create_student_marks",
                               !.cred = TokenOf(TeacherEmail), !.arg = s,
                               !.question_id = q, !.marks_obtained = m],
              "auth", MaxMarkRequests)

\* StudentMarks(**marks.dict())
NewMarks(p) ==
    [id |-> nextId, student_id |-> req[p].arg, question_id |-> req[p].question_id,
     marks_obtained |-> req[p].marks_obtained, created_at |-> clock]

\* await db.student_marks.insert_one(marks_obj.dict()); return marks_obj
create_student_marks(p) ==
    /\ pc[p] = "body"
    /\ req[p].op = "create_student_marks"
    /\ IF student_marks_insert_ok(NewMarks(p))
       THEN /\ db' = [db EXCEPT !["student_marks"] = @ \cup {NewMarks(p)}]
            /\ nextId' = nextId + 1
            /\ Reply(p, [NoResp EXCEPT !.status = HTTP_200_OK, !.id = nextId])
       ELSE /\ Reply(p, [NoResp EXCEPT !.status = HTTP_500_INTERNAL_SERVER_ERROR])
            /\ UNCHANGED <<db, nextId>>
    /\ UNCHANGED <<users, cache, clock, req, current_user, rows, cached_data, found, agg, cls,
                   started, workload>>

\* GET /analytics/student/{id}/co-attainment by a principal of any role
StartAttainmentBy(p) ==
    \E s \in StudentIds, e \in {AdminEmail, TeacherEmail, StudentEmail} :
        Begin(p, [NoReq EXCEPT !.op = "get_student_co_attainment",
                               !.cred = TokenOf(e), !.arg = s],
              "auth", MaxMarkRequests)

\* the store the marks are posted to: one question of 10 marks on CO 21
MarkStores ==
    {[EmptyStore EXCEPT
        !["questions"] = {[id |-> 11, co_id |-> 21, max_marks |-> 20, created_at |-> 0]},
        !["course_outcomes"] = StoredCourseOutcomes]}

(* ------------------- the stores of a taught course ------------------- *)
\* the course whose class attainment is asked for
ClassCourseIds == {1}

StartClass(p) ==
    \E course_id \in ClassCourseIds :
        Begin(p, [NoReq EXCEPT !.op = "get_class_co_attainment",
                               !.cred = TokenOf(TeacherEmail), !.arg = course_id],
              "auth", MaxClassRequests)

\* a student created through POST /admin/students with the given course_ids
Enrolled(id, name, course_ids) ==
    [id |-> id, name |-> name, email |-> name, role |-> "student",
     password_hash |-> "bcrypt", course_ids |-> course_ids, created_at |-> 0]

\* a student who registered through POST /auth/register: no course_ids
SelfRegistered(id, name) ==
    [id |-> id, name |-> name, email |-> name, role |-> "student",
     password_hash |-> "bcrypt", course_ids |-> NoCourseIds, created_at |-> 0]

\* the principals: the admin, the teacher, two created students of one or
\* another course and a self-registered student
ClassPrincipals ==
    {Registered \cup {Enrolled(5, "s5", c5), Enrolled(6, "s6", c6), SelfRegistered(7, "s7")} :
        c5 \in {{1}, {2}}, c6 \in {{1}, {}}}

\* two questions on CO 21 (of 10 and of 5 marks) and one on CO 22
ClassQuestions ==
    {[id |-> 11, co_id |-> 21, max_marks |-> 20, created_at |-> 0],
     [id |-> 12, co_id |-> 21, max_marks |-> 10, created_at |-> 0],
     [id |-> 13, co_id |-> 22, max_marks |-> 10, created_at |-> 0]}

\* up to MaxClassMarkRows rows of 5 marks, of any of the three students on any
\* of the questions
ClassMarkSets ==
    UNION {{{[id |-> 30 + k, student_id |-> g[k][1], question_id |-> g[k][2],
              marks_obtained |-> 10, created_at |-> 0] : k \in 1..n} :
                g \in [1..n -> {5, 6, 7} \X {11, 12, 13}]} :
            n \in 0..MaxClassMarkRows}

ClassStores ==
    {[EmptyStore EXCEPT !["questions"] = ClassQuestions, !["student_marks"] = ms,
                        !["course_outcomes"] = StoredCourseOutcomes] :
        ms \in ClassMarkSets}

(* ------------------- POST /auth/login, GET /auth/me ------------------- *)
\* POST /auth/register with a password
StartSignUp(p) ==
    \E e \in {AdminEmail}, r \in {"admin", "student"}, w \in {"pw1"} :
        Begin(p, [NoReq EXCEPT !.op = "register", !.email = e, !.role = r, !.password = w],
              "find", MaxTokenRequests)

StartLogin(p) ==
    \E e \in Emails, w \in Passwords :
        Begin(p, [NoReq EXCEPT !.op = "login", !.email = e, !.password = w],
              "login", MaxTokenRequests)

\* db_user = await db.users.find_one({"email": user.email}); 401 unless found
\* and the password verifies; else the token
login(p) ==
    /\ pc[p] = "login"
    /\ LET db_user == find_one_by_email(req[p].email) IN
       IF db_user = NoUser \/ ~verify_password(req[p].password, db_user.password_hash)
       THEN Reply(p, [NoResp EXCEPT !.status = HTTP_401_UNAUTHORIZED])
       ELSE Reply(p, [NoResp EXCEPT !.status = HTTP_200_OK,
                         !.token = create_access_token(req[p].email,
                                       ACCESS_TOKEN_EXPIRE_MINUTES * 60)])
    /\ UNCHANGED <<users, db, cache, clock, nextId, req, current_user, rows, cached_data,
                   found, agg, cls, started, workload>>

\* the tokens a client holds: those of the responses it has received
IssuedTokens == {resp[q].token : q \in {x \in Procs : pc[x] = "done"}} \ {NoToken}

\* GET /auth/me or POST /programs presenting a token received earlier
StartWithToken(p) ==
    \E op \in {"get_me", "create_program"}, t \in IssuedTokens :
        Begin(p, [NoReq EXCEPT !.op = op, !.cred = t], "auth", MaxTokenRequests)

\* user_data = current_user.copy(); pop _id and password_hash; return it
get_me(p) ==
    /\ pc[p] = "body"
    /\ req[p].op = "get_me"
    /\ Reply(p, [NoResp EXCEPT !.status = HTTP_200_OK,
                               !.principal = without_password_hash(current_user[p])])
    /\ UNCHANGED <<users, db, cache, clock, nextId, req, current_user, rows, cached_data,
                   found, agg, cls, started, workload>>

\* a quarter of an hour passes
TokenTick ==
    /\ clock < MaxTokenTicks * 15 * 60
    /\ clock' = clock + 15 * 60
    /\ UNCHANGED <<users, db, cache, nextId, pc, req, current_user, rows, cached_data,
                   found, agg, cls, resp, started, workload>>

(* ------------- POST /co-po-map, POST /exams, POST /questions ---------- *)
create_co_po_mapping(p) ==
    /\ pc[p] = "body"
    /\ req[p].op = "create_co_po_mapping"
    /\ InsertDoc(p, "co_po_maps", req[p].arg)
    /\ UNCHANGED cache

create_exam(p) ==
    /\ pc[p] = "body"
    /\ req[p].op = "create_exam"
    /\ InsertDoc(p, "exams", req[p].arg)
    /\ UNCHANGED cache

\* an insert that replaces what the collection held
insert_one_replacing(docs, doc) == {doc}

\* collection.insert_one(doc): the collection with the document added
insert_one(docs, doc) == docs \cup {doc}

\* Question(**question.dict()): a fresh id, the co_id and max_marks of the request
NewQuestion(p) ==
    [id |-> nextId, co_id |-> req[p].arg, max_marks |-> req[p].max_marks,
     created_at |-> clock]

\* await db.questions.insert_one(question_obj.dict()); return question_obj
create_question(p) ==
    /\ pc[p] = "body"
    /\ req[p].op = "create_question"
    /\ IdsLeft
    /\ nextId' = nextId + 1
    /\ db' = [db EXCEPT !["questions"] = insert_one(@, NewQuestion(p))]
    /\ Reply(p, [NoResp EXCEPT !.status = HTTP_200_OK, !.id = nextId])
    /\ UNCHANGED <<users, cache, clock, req, current_user, rows, cached_data, found, agg, cls,
                   started, workload>>

(* --------------------- every write, over a warm cache ----------------- *)
WriteOps == {"create_program", "create_course", "create_course_outcome",
             "create_program_outcome", "create_co_po_mapping", "create_exam",
             "create_question", "create_student_marks", "create_student",
             "create_teacher", "register"}

\* a write of the workload by a principal its gate admits
StartAnyWrite(p) ==
    \E op \in (WriteOps \ {"register"}) \cap workload, e \in NewEmails \cup {NoEmail} :
        /\ (e # NoEmail) <=> (op \in {"create_student", "create_teacher"})
        /\ Begin(p, [NoReq EXCEPT !.op = op, !.cred = TokenOf(Caller(op)), !.arg = 1,
                                  !.question_id = 11, !.marks_obtained = 10,
                                  !.max_marks = 20, !.email = e],
                 "auth", MaxCacheRequests)

\* POST /auth/register of a new teacher
StartRegisterTeacher(p) ==
    /\ "register" \in workload
    /\ \E e \in NewEmails :
        Begin(p, [NoReq EXCEPT !.op = "register", !.email = e, !.role = "teacher"],
              "find", MaxCacheRequests)

\* the two invalidated lists are read while one kind of write is made
WriteWorkloads == {{"get_program_outcomes", "get_all_teachers", w} : w \in WriteOps}

(* ------------------ a list read while a write is made ----------------- *)
\* a program created before the run starts
StoredPrograms == {[id |-> 41, ref |-> 0, created_at |-> 0]}

StaleStores == {[EmptyStore EXCEPT !["programs"] = StoredPrograms]}

\* GET /programs; the time the request is received is recorded
StartTimedRead(p) ==
    /\ "get_programs" \in workload
    /\ Begin(p, [NoReq EXCEPT !.op = "get_programs", !.cred = TokenOf(AdminEmail),
                              !.at = clock],
             "auth", MaxCacheRequests)

(* ------------------- a student with very many marks ------------------- *)
\* one more row than to_list returns, all of student 9 on question 11
ManyMarks ==
    {[id |-> 1000 + k, student_id |-> 9, question_id |-> 11, marks_obtained |-> 10,
      created_at |-> 0] : k \in 1..(TO_LIST_LIMIT + 1)}

\* the store of one question of 10 marks on CO 21, with those rows
ManyMarksStores == {[t EXCEPT !["student_marks"] = ManyMarks] : t \in MarkStores}

(* ------------- an aggregation while a question is created ------------- *)
MaxRaceRequests == 3

\* the ids uuid4 may return for the questions created during the run
RaceQuestionIds == {3, 4}

\* two rows, posted for question ids that are not stored (question_id is not
\* validated): the ids that the questions created during the run are given
RaceMarkSets ==
    {{[id |-> 30 + k, student_id |-> 9, question_id |-> g[k], marks_obtained |-> 10,
       created_at |-> 0] : k \in 1..2} : g \in [1..2 -> RaceQuestionIds]}

RaceStores ==
    {[EmptyStore EXCEPT !["student_marks"] = ms,
                        !["course_outcomes"] = StoredCourseOutcomes] : ms \in RaceMarkSets}

\* POST /questions by the teacher: a question of 10 marks on CO 21
StartCreateQuestion(p) ==
    /\ "create_question" \in workload
    /\ Begin(p, [NoReq EXCEPT !.op = "create_question", !.cred = TokenOf(TeacherEmail),
                              !.arg = 21, !.max_marks = 20],
             "auth", MaxRaceRequests)

\* GET /analytics/student/9/co-attainment by the teacher
StartRaceAttainment(p) ==
    /\ "get_student_co_attainment" \in workload
    /\ Begin(p, [NoReq EXCEPT !.op = "get_student_co_attainment",
                              !.cred = TokenOf(TeacherEmail), !.arg = 9],
             "auth", MaxRaceRequests)

(* ------------- cached reads by every kind of caller ------------------- *)
MaxGateRequests == 3

\* the credentials presented: none, the token of the admin, of the student,
\* and a token of this server for an email that is not registered
GateCredentials ==
    {[kind |-> "missing", sub |-> NoSub, exp |-> 0]}
    \cup {TokenOf(e) : e \in {AdminEmail, StudentEmail} \cup NewEmails}

\* GET /programs, GET /admin/students or GET /admin/teachers
StartGatedRead(p) ==
    \E op \in {"get_programs", "get_all_students", "get_all_teachers"} \cap workload,
       c \in GateCredentials :
        Begin(p, [NoReq EXCEPT !.op = op, !.cred = c], "auth", MaxGateRequests)

\* GET /public/programs: the handler has no dependency and starts at once
StartPublicRead(p) ==
    /\ "get_public_programs" \in workload
    /\ Begin(p, [NoReq EXCEPT !.op = "get_public_programs",
                              !.cred = [kind |-> "missing", sub |-> NoSub, exp |-> 0]],
             "check", MaxGateRequests)

\* POST /programs with any of those credentials
StartGatedWrite(p) ==
    \E op \in {"create_program"} \cap workload, c \in GateCredentials :
        Begin(p, [NoReq EXCEPT !.op = op, !.cred = c], "auth", MaxGateRequests)

GateWorkloads ==
    {{"get_programs", "get_public_programs", "create_program"},
     {"get_all_students", "get_all_teachers"}}

(* ---------------------------- specifications -------------------------- *)
NextGate ==
    \E p \in Procs :
        \/ StartRegister(p)
        \/ FindExisting(p)
        \/ register_insert(p)
        \/ StartGated(p)
        \/ Authorize(p)
        \/ create_program(p)
        \/ create_course_outcome(p)

NextPrincipals ==
    \E p \in Procs :
        \/ StartRegister(p)
        \/ FindExisting(p)
        \/ register_insert(p)
        \/ StartCreatePrincipal(p)
        \/ Authorize(p)
        \/ create_student_insert(p)
        \/ create_teacher_insert(p)
        \/ create_teacher_invalidate(p)

\* the role gate: registration and the role-gated writes
Spec == Init /\ [][NextGate]_vars

\* the three operations that create principals
SpecPrincipals == Init /\ [][NextPrincipals]_vars

NextCache ==
    \/ Tick
    \/ \E p \in Procs :
        \/ StartTtlRead(p)
        \/ StartTtlWrite(p)
        \/ Authorize(p)
        \/ CacheCheck(p)
        \/ RunQuery(p)
        \/ CacheSet(p)
        \/ create_program(p)
        \/ create_course(p)
        \/ create_course_outcome(p)
        \/ FindExisting(p)
        \/ create_student_insert(p)

\* each workload reads and writes one part of the store
TtlWorkloads ==
    {{"get_programs", "get_all_students"},
     {"get_programs", "create_program"},
     {"get_all_students", "create_student"},
     {"get_courses", "create_course"},
     {"get_courses_by_program", "create_course"},
     {"get_course_outcomes_by_course", "create_course_outcome"}}

\* the cached list endpoints that rely on the ttl alone, and their writes
SpecCache == InitCache(TtlWorkloads) /\ [][NextCache]_vars

NextInvalidate ==
    \/ Tick
    \/ \E p \in Procs :
        \/ StartInvalidatedRead(p)
        \/ StartInvalidatingWrite(p)
        \/ Authorize(p)
        \/ CacheCheck(p)
        \/ RunQuery(p)
        \/ CacheSet(p)
        \/ create_program_outcome(p)
        \/ create_program_outcome_invalidate(p)
        \/ FindExisting(p)
        \/ create_teacher_insert(p)
        \/ create_teacher_invalidate(p)

NextAttainment ==
    \E p \in {1} :
        \/ StartAttainment(p)
        \/ Authorize(p)
        \/ FetchMarks(p)
        \/ LookupQuestion(p)
        \/ LookupCourseOutcome(p)

\* computeStudentCOAttainment applied to every small store
SpecAttainment ==
    /\ InitStored({{"get_student_co_attainment"}}, AttainmentStores)
    /\ [][NextAttainment]_vars

NextMarks ==
    \E p \in Procs :
        \/ StartCreateMarks(p)
        \/ StartAttainmentBy(p)
        \/ Authorize(p)
        \/ create_student_marks(p)
        \/ FetchMarks(p)
        \/ LookupQuestion(p)
        \/ LookupCourseOutcome(p)

NextClass ==
    \E p \in {1} :
        \/ StartClass(p)
        \/ Authorize(p)
        \/ FetchStudents(p)
        \/ FetchMarks(p)
        \/ LookupQuestion(p)
        \/ LookupCourseOutcome(p)

\* computeClassCOAttainment applied to every small class
SpecClass ==
    /\ InitWith(ClassPrincipals, {{"get_class_co_attainment"}}, ClassStores)
    /\ [][NextClass]_vars

NextToken ==
    \/ TokenTick
    \/ \E p \in Procs :
        \/ StartSignUp(p)
        \/ StartLogin(p)
        \/ StartWithToken(p)
        \/ FindExisting(p)
        \/ register_insert(p)
        \/ login(p)
        \/ Authorize(p)
        \/ get_me(p)
        \/ create_program(p)

\* tokens are issued and presented while time passes
SpecToken == Init /\ [][NextToken]_vars

\* marks are posted while attainments are read
SpecMarks ==
    /\ InitWith({Registered \cup {StoredStudent}}, {{"create_student_marks"}}, MarkStores)
    /\ [][NextMarks]_vars

\* the two cached lists with explicit invalidation, and their creates
SpecInvalidate ==
    /\ InitCache({{"get_program_outcomes", "create_program_outcome",
                   "get_all_teachers", "create_teacher"}})
    /\ [][NextInvalidate]_vars

NextWrites ==
    \E p \in Procs :
        \/ StartInvalidatedRead(p)
        \/ StartAnyWrite(p)
        \/ StartRegisterTeacher(p)
        \/ Authorize(p)
        \/ CacheCheck(p)
        \/ RunQuery(p)
        \/ CacheSet(p)
        \/ create_program(p)
        \/ create_course(p)
        \/ create_course_outcome(p)
        \/ create_program_outcome(p)
        \/ create_program_outcome_invalidate(p)
        \/ create_co_po_mapping(p)
        \/ create_exam(p)
        \/ create_question(p)
        \/ create_student_marks(p)
        \/ FindExisting(p)
        \/ register_insert(p)
        \/ create_student_insert(p)
        \/ create_teacher_insert(p)
        \/ create_teacher_invalidate(p)

\* every kind of write, made on a store that holds a question and a course
\* outcome, while the two invalidated lists are cached
SpecWrites == InitStored(WriteWorkloads, MarkStores) /\ [][NextWrites]_vars

NextStale ==
    \/ Tick
    \/ \E p \in Procs :
        \/ StartTimedRead(p)
        \/ StartWrite(p, {"create_program"})
        \/ Authorize(p)
        \/ CacheCheck(p)
        \/ RunQuery(p)
        \/ CacheSet(p)
        \/ create_program(p)

\* programs are listed while a program is created and time passes
SpecStale ==
    /\ InitStored({{"get_programs", "create_program"}}, StaleStores)
    /\ [][NextStale]_vars

\* computeStudentCOAttainment for a student with more rows than one scan returns
SpecScan ==
    /\ InitStored({{"get_student_co_attainment"}}, ManyMarksStores)
    /\ [][NextAttainment]_vars

NextRace ==
    \E p \in Procs :
        \/ StartRaceAttainment(p)
        \/ StartCreateQuestion(p)
        \/ Authorize(p)
        \/ FetchMarks(p)
        \/ LookupQuestion(p)
        \/ LookupCourseOutcome(p)
        \/ create_question(p)

\* a student's attainment is computed while questions are created
SpecRace ==
    /\ InitStored({{"get_student_co_attainment", "create_question"}}, RaceStores)
    /\ [][NextRace]_vars

NextGateCache ==
    \E p \in Procs :
        \/ StartGatedRead(p)
        \/ StartPublicRead(p)
        \/ StartGatedWrite(p)
        \/ Authorize(p)
        \/ CacheCheck(p)
        \/ RunQuery(p)
        \/ CacheSet(p)
        \/ create_program(p)

\* the cached lists are read, and a program is created, by admitted, refused
\* and unauthenticated callers
SpecGateCache ==
    /\ InitWith({Registered \cup {StoredStudent}}, GateWorkloads, StaleStores)
    /\ [][NextGateCache]_vars

(* ======================================================================= *)
(* Properties                                                              *)
(* ======================================================================= *)
GatedOp(p) == RequiredRole(req[p].op) # NoRole

\* the request got past the gate: its handler runs or has answered
Admitted(p) ==
    \/ pc[p] \in {"body", "find", "insert", "invalidate", "check", "query", "set",
                 "marks", "question", "outcome", "students"}
    \/ pc[p] = "done" /\ resp[p].status \notin {HTTP_401_UNAUTHORIZED, HTTP_403_FORBIDDEN}

\* C1: on an endpoint guarded by require_role(R), a request of an authenticated
\* principal is admitted exactly when the principal's role equals R, and is
\* answered 403 otherwise; no role implies another.
C1_RoleGateExactMatch ==
    \A p \in Procs :
        (GatedOp(p) /\ current_user[p] # NoUser) =>
            IF current_user[p].role = RequiredRole(req[p].op)
            THEN Admitted(p)
            ELSE pc[p] = "done" /\ resp[p].status = HTTP_403_FORBIDDEN

\* an admin principal was refused on the teacher-only POST /course-outcomes
C1_Witness ==
    \E p \in Procs :
        /\ req[p].op = "create_course_outcome"
        /\ current_user[p].role = "admin"
        /\ pc[p] = "done" /\ resp[p].status = HTTP_403_FORBIDDEN

\* C2: a request to a role-gated endpoint for which no principal was resolved
\* (credential missing, malformed, without subject, or naming an unknown
\* email) is answered 401, never 403.
C2_UnauthenticatedIs401 ==
    \A p \in Procs :
        (GatedOp(p) /\ pc[p] = "done" /\ current_user[p] = NoUser) =>
            resp[p].status = HTTP_401_UNAUTHORIZED

PrincipalOps == {"register", "create_student", "create_teacher"}

\* the request passed its dependencies and reached the handler's body
ReachedHandler(p) ==
    req[p].op = "register" \/ (current_user[p] # NoUser /\ Admitted(p))

\* C3: a creation request whose email already belonged to a stored principal
\* when it arrived is answered 400 "Email already registered" whatever the
\* roles and whichever of the three operations is used; it carries no token
\* and no principal, never reaches the insert, and none of its steps changes
\* the store or the cache.
C3_DuplicateEmailConflict ==
    /\ [](\A p \in Procs :
            (req[p].op \in PrincipalOps /\ req[p].email_taken) =>
                /\ pc[p] # "insert"
                /\ (pc[p] = "done" /\ ReachedHandler(p)) =>
                       /\ resp[p].status = HTTP_400_BAD_REQUEST
                       /\ resp[p].token = NoToken
                       /\ resp[p].principal = NoUser)
    /\ [][\A p \in Procs :
            (req[p].op \in PrincipalOps /\ req[p].email_taken /\ req'[p] = req[p]
                /\ pc'[p] # pc[p]) =>
                (users' = users /\ db' = db /\ cache' = cache)]_vars

\* create_teacher was refused for an email held by a principal of another role
C3_Witness ==
    \E p \in Procs :
        /\ req[p].op = "create_teacher" /\ req[p].email_taken
        /\ pc[p] = "done" /\ resp[p].status = HTTP_400_BAD_REQUEST
        /\ \E u \in users : u.email = req[p].email /\ u.role # "teacher"

\* C4: no two stored principals share an email, and two creations of the same
\* email never both succeed, under every interleaving of the lookups and inserts.
C4_EmailUnique ==
    /\ \A u, v \in users : u.email = v.email => u = v
    /\ \A p, q \in Procs :
        (p # q /\ req[p].op \in PrincipalOps /\ req[q].op \in PrincipalOps
            /\ req[p].email = req[q].email
            /\ pc[p] = "done" /\ pc[q] = "done") =>
            ~(resp[p].status = HTTP_200_OK /\ resp[q].status = HTTP_200_OK)

\* two registrations of one email ran concurrently: both passed the lookup,
\* one stored its principal and the other's insert was rejected
C4_Witness ==
    \E p, q \in Procs :
        /\ p # q /\ req[p].email = req[q].email
        /\ ~req[p].email_taken /\ ~req[q].email_taken
        /\ pc[p] = "done" /\ resp[p].status = HTTP_200_OK
        /\ pc[q] = "done" /\ resp[q].status = HTTP_500_INTERNAL_SERVER_ERROR

TtlReads == {"get_programs", "get_courses", "get_courses_by_program",
             "get_course_outcomes_by_course", "get_all_students"}

\* the TTL the claims state: 30 s for the admin listings, 60 s for the others
ClaimedTtl(op) == IF op \in {"get_all_students", "get_all_teachers"} THEN 30 ELSE 60

\* the entry the read found under its key was within / past its TTL
FoundFresh(p) ==
    found[p].present /\ found[p].at - found[p].timestamp < ClaimedTtl(req[p].op)
FoundExpired(p) ==
    found[p].present /\ found[p].at - found[p].timestamp >= ClaimedTtl(req[p].op)

\* the records the read's query matched that were created after the entry
\* it found was stored
NewRecords(p) == {d \in found[p].docs : d.created_at > found[p].timestamp}

\* C5: a read of a ttl-only list endpoint that finds its key populated less
\* than TTL ago, a record having been inserted since, returns the value that was
\* stored and does not show the new record, whatever that value is (the empty
\* list included).
C5_StaleWithinTtl ==
    \A p \in Procs :
        (req[p].op \in TtlReads /\ pc[p] = "done" /\ FoundFresh(p) /\ NewRecords(p) # {}) =>
            (resp[p].list = found[p].data /\ NewRecords(p) \cap resp[p].list = {})

\* C6: a read that finds its key populated TTL or more ago (60 s, 30 s for the
\* admin listings) does not answer from the cache: it queries the store, its
\* result holds every matching record (so any record inserted since the entry
\* was stored, and it differs from the old value), and it stores that result
\* under the key with the time of storing.
C6_RecomputeAfterExpiry ==
    /\ [](\A p \in Procs :
            (req[p].op \in TtlReads /\ FoundExpired(p)) =>
                /\ cached_data[p] = None
                /\ pc[p] \in {"query", "set", "done"}
                /\ pc[p] = "done" =>
                      /\ found[p].docs \subseteq resp[p].list
                      /\ NewRecords(p) # {} => resp[p].list # found[p].data)
    /\ [][\A p \in Procs :
            (req[p].op \in TtlReads /\ FoundExpired(p) /\ pc[p] = "set" /\ pc'[p] = "done") =>
                /\ cache_key_of(req[p]) \in DOMAIN cache'
                /\ cache'[cache_key_of(req[p])] =
                       [data |-> resp'[p].list, timestamp |-> clock]
                /\ clock >= found[p].at]_vars

\* a read found an expired entry, a record was inserted after the entry was
\* stored, and the read has answered
C6_Witness ==
    \E p \in Procs :
        /\ req[p].op \in TtlReads /\ FoundExpired(p) /\ NewRecords(p) # {}
        /\ pc[p] = "done" /\ NewRecords(p) \subseteq resp[p].list

InvalidatedReads == {"get_all_teachers", "get_program_outcomes"}

CreateOf(op) == IF op = "get_all_teachers" THEN "create_teacher" ELSE "create_program_outcome"

\* C7: a GET /admin/teachers (GET /program-outcomes) that starts after a
\* POST /admin/teachers (POST /program-outcomes) has completed returns a list
\* that contains the created record, under every interleaving.
C7_VisibleAfterInvalidation ==
    \A p \in Procs :
        (req[p].op \in InvalidatedReads /\ pc[p] = "done"
            /\ resp[p].status = HTTP_200_OK) =>
            \A c \in req[p].after :
                c.op = CreateOf(req[p].op) => \E d \in resp[p].list : d.id = c.id

\* C8: get_cached_data returns the stored value, leaving the cache unchanged,
\* exactly when the key has an entry younger than ttl; an entry of age ttl or
\* more is removed and None returned; without an entry None is returned and the
\* cache is unchanged; the other keys' entries are never touched.
C8_CacheGet ==
    [][\A p \in Procs :
        (pc[p] = "check" /\ pc'[p] # "check") =>
            LET k == cache_key_of(req[p])
                ttl == ClaimedTtl(req[p].op)
            IN  /\ (k \in DOMAIN cache /\ clock - cache[k].timestamp < ttl) =>
                        (cached_data'[p] = Some(cache[k].data) /\ cache' = cache)
                /\ (k \in DOMAIN cache /\ clock - cache[k].timestamp >= ttl) =>
                        /\ cached_data'[p] = None
                        /\ DOMAIN cache' = DOMAIN cache \ {k}
                /\ k \notin DOMAIN cache =>
                        (cached_data'[p] = None /\ cache' = cache)
                /\ \A j \in DOMAIN cache \ {k} : j \in DOMAIN cache' /\ cache'[j] = cache[j]]_vars

\* get_cached_data found an entry whose age was exactly its ttl: it removed
\* the entry and returned None, and another key's entry is still cached
C8_Witness ==
    \E p \in Procs :
        /\ pc[p] = "query"
        /\ found[p].present /\ found[p].at - found[p].timestamp = ClaimedTtl(req[p].op)
        /\ cached_data[p] = None
        /\ cache_key_of(req[p]) \notin DOMAIN cache
        /\ DOMAIN cache # {}

(* ------------------------------ attainment ---------------------------- *)
\* the request in slot p is a finished co-attainment read that was answered
AttainmentDone(p) ==
    /\ pc[p] = "done"
    /\ req[p].op = "get_student_co_attainment"
    /\ resp[p].status = HTTP_200_OK

\* the stored marks of a student, and those of them whose question exists
MarksOf(s) == {m \in db["student_marks"] : m.student_id = s}

Resolved(s) == {m \in MarksOf(s) : \E q \in db["questions"] : q.id = m.question_id}

QuestionOf(m) == CHOOSE q \in db["questions"] : q.id = m.question_id

RECURSIVE SumOver(_, _)
\* the sum of a set of [id, value] pairs
SumOver(pairs, acc) ==
    IF pairs = {} THEN acc
    ELSE LET x == CHOOSE y \in pairs : TRUE
         IN SumOver(pairs \ {x}, acc + x[2])

\* C9: a student with no stored marks gets the empty mapping and no error
C9_NoMarksEmptyMapping ==
    \A p \in Procs :
        (/\ pc[p] = "done"
         /\ req[p].op = "get_student_co_attainment"
         /\ current_user[p] # NoUser
         /\ MarksOf(req[p].arg) = {})
        => /\ resp[p].status = HTTP_200_OK
           /\ DOMAIN resp[p].attainment = {}

C9_Witness ==
    \E p \in Procs :
        /\ AttainmentDone(p)
        /\ MarksOf(req[p].arg) = {}
        /\ db["student_marks"] # {}
        /\ \A u \in users : u.id # req[p].arg
        /\ DOMAIN resp[p].attainment = {}

\* C10: the mapping has exactly the COs of the student's marks whose question
\* exists; for each, totalMarks and obtainedMarks are the sums of max_marks and
\* marks_obtained over those marks, and attainmentPercentage is the hundredth
\* nearest to 100 * obtained / total when total > 0 and 0 otherwise
C10_PerCoAttainment ==
    \A p \in Procs :
        AttainmentDone(p) =>
            LET s == req[p].arg
                out == resp[p].attainment
                of(c) == {m \in Resolved(s) : QuestionOf(m).co_id = c}
            IN  /\ DOMAIN out = {QuestionOf(m).co_id : m \in Resolved(s)}
                /\ \A c \in DOMAIN out :
                    LET total == SumOver({<<m.id, QuestionOf(m).max_marks>> : m \in of(c)}, 0)
                        obtained == SumOver({<<m.id, m.marks_obtained>> : m \in of(c)}, 0)
                        pct == out[c].attainment_percentage
                        gap == pct * total - 10000 * obtained
                    IN  /\ out[c].total_marks = total
                        /\ out[c].obtained_marks = obtained
                        /\ IF total > 0
                           THEN 2 * gap <= total /\ -2 * gap <= total
                           ELSE pct = 0

\* 8 of 10 and 5 of 5 on one CO give 13 of 15 and 86.67; another student's
\* 8.5 of 10 is not counted
C10_Witness ==
    \E p \in Procs :
        /\ AttainmentDone(p)
        /\ Cardinality(Resolved(req[p].arg)) = 2
        /\ \E c \in DOMAIN resp[p].attainment :
            /\ resp[p].attainment[c].total_marks = 30
            /\ resp[p].attainment[c].obtained_marks = 26
            /\ resp[p].attainment[c].attainment_percentage = 8667

(* --------------------------- duplicate marks -------------------------- *)
\* the rows the finished read in slot p fetched, and those of them on a stored
\* question of CO c
Fetched(p) == {agg[p].student_marks[i] : i \in 1..Len(agg[p].student_marks)}

FetchedOn(p, c) ==
    {m \in Fetched(p) : \E q \in db["questions"] : q.id = m.question_id /\ q.co_id = c}

\* C11: POST /student-marks stores a row and answers 200 whether or not a row
\* for the same (student, question) pair is stored already; and a finished
\* co-attainment read counts every fetched row: obtained_marks is the sum of
\* marks_obtained and total_marks the sum of the question's max_marks over the
\* rows, a question counted once per row.
C11_DuplicateMarksDoubleCount ==
    /\ [](\A p \in Procs : AttainmentDone(p) =>
            \A c \in DOMAIN resp[p].attainment :
                /\ resp[p].attainment[c].obtained_marks =
                     SumOver({<<m.id, m.marks_obtained>> : m \in FetchedOn(p, c)}, 0)
                /\ resp[p].attainment[c].total_marks =
                     SumOver({<<m.id, QuestionOf(m).max_marks>> : m \in FetchedOn(p, c)}, 0))
    /\ [][\A p \in Procs :
            (pc[p] = "body" /\ req[p].op = "create_student_marks" /\ pc'[p] = "done") =>
                /\ resp'[p].status = HTTP_200_OK
                /\ db["student_marks"] \subseteq db'["student_marks"]
                /\ \E m \in db'["student_marks"] \ db["student_marks"] :
                    /\ m.id = resp'[p].id
                    /\ m.student_id = req[p].arg
                    /\ m.question_id = req[p].question_id
                    /\ m.marks_obtained = req[p].marks_obtained]_vars

\* two rows of 8 and 5 for one student on the one question of 10 marks were
\* fetched: 13 of 20
C11_Witness ==
    \E p \in Procs :
        /\ AttainmentDone(p)
        /\ \E m, n \in Fetched(p) :
            m.id # n.id /\ m.question_id = n.question_id /\ m.question_id = 11
        /\ Cardinality(Fetched(p)) = 2
        /\ 21 \in DOMAIN resp[p].attainment
        /\ resp[p].attainment[21].total_marks = 40
        /\ resp[p].attainment[21].obtained_marks = 26

(* --------------------------- class attainment ------------------------- *)
\* the request in slot p is a finished class read that was answered
ClassDone(p) ==
    /\ pc[p] = "done"
    /\ req[p].op = "get_class_co_attainment"
    /\ resp[p].status = HTTP_200_OK

\* the students the finished class read in slot p fetched
Students(p) == {cls[p].students[n] : n \in 1..Len(cls[p].students)}

\* a student's own attainment, from the store: the COs, and per CO the sums
\* and the percentage
OwnKeys(s) == {QuestionOf(m).co_id : m \in Resolved(s)}

OwnTotal(s, c) ==
    SumOver({<<m.id, QuestionOf(m).max_marks>> :
                m \in {x \in Resolved(s) : QuestionOf(x).co_id = c}}, 0)

OwnObtained(s, c) ==
    SumOver({<<m.id, m.marks_obtained>> :
                m \in {x \in Resolved(s) : QuestionOf(x).co_id = c}}, 0)

OwnPercentage(s, c) ==
    attainment_percentage([total_marks |-> OwnTotal(s, c),
                           obtained_marks |-> OwnObtained(s, c)])

\* the students of the class whose own attainment has CO c
Contributing(p, c) == {u \in Students(p) : c \in OwnKeys(u.id)}

\* C12: in a class result every CO's student_attainments has exactly one entry,
\* with the student's own percentage, for each fetched student whose own
\* attainment has the CO, and none for the other students; with one
\* contributing student the class average is that student's percentage.
C12_OnlyContributingStudents ==
    \A p \in Procs : ClassDone(p) =>
        LET out == resp[p].attainment IN
        /\ DOMAIN out = UNION {OwnKeys(u.id) : u \in Students(p)}
        /\ \A c \in DOMAIN out :
            LET entries == out[c].student_attainments IN
            /\ Len(entries) = Cardinality(Contributing(p, c))
            /\ \A u \in Contributing(p, c) :
                 \E n \in 1..Len(entries) :
                    /\ entries[n].student_name = u.name
                    /\ entries[n].attainment_percentage = OwnPercentage(u.id, c)
            /\ \A u \in Students(p) \ Contributing(p, c) :
                 \A n \in 1..Len(entries) : entries[n].student_name # u.name
            /\ Len(entries) = 1 => out[c].class_average = entries[1].attainment_percentage

\* two students are in the class, one has 5 of 10 on CO 21 and the other has
\* no marks on it: the class average of CO 21 is 50.00, not 25.00
C12_Witness ==
    \E p \in Procs :
        /\ ClassDone(p)
        /\ Cardinality(Students(p)) = 2
        /\ 21 \in DOMAIN resp[p].attainment
        /\ Cardinality(Contributing(p, 21)) = 1
        /\ resp[p].attainment[21].class_average = 5000

\* the percentages listed for a CO, and their sum
Percentages(p, c) ==
    [n \in 1..Len(resp[p].attainment[c].student_attainments) |->
        resp[p].attainment[c].student_attainments[n].attainment_percentage]

RECURSIVE SeqSum(_, _)
SeqSum(seq, n) == IF n = 0 THEN 0 ELSE seq[n] + SeqSum(seq, n - 1)

C14_AttainmentAuthenticationOnly ==
    \A p \in Procs :
        (/\ req[p].op = "get_student_co_attainment"
         /\ pc[p] \notin {"idle", "auth"}
         /\ find_one_by_email(req[p].cred.sub) # NoUser) =>
            /\ current_user[p] = find_one_by_email(req[p].cred.sub)
            /\ pc[p] \in {"marks", "question", "outcome", "done"}
            /\ pc[p] = "done" =>
                /\ resp[p].status = HTTP_200_OK
                /\ \A m \in Fetched(p) : m.student_id = req[p].arg
                /\ DOMAIN resp[p].attainment =
                     {c \in CoIds : FetchedOn(p, c) # {}}

\* a principal of role student has read the attainment of another student id,
\* of role admin likewise
C14_Witness ==
    \E p, q \in Procs :
        /\ AttainmentDone(p) /\ AttainmentDone(q)
        /\ current_user[p].role = "student" /\ current_user[q].role = "admin"
        /\ req[p].arg # current_user[p].id
        /\ DOMAIN resp[p].attainment # {}

(* -------------------------------- tokens ------------------------------ *)
\* the stored principal a token names
Named(cred) == CHOOSE u \in users : u.email = cred.sub

\* C15: a successful register or login for email e answers a token whose
\* subject is e, the email of a stored principal; a request presenting such a
\* token before its expiry is resolved to the one stored principal with that
\* email, GET /auth/me answers that principal's record (without the password
\* hash), and the gate of POST /programs admits the request exactly when that
\* principal's stored role is admin; a login with an unknown email or a wrong
\* password is answered 401 without a token.
C15_TokenRoundTrip ==
    /\ [](\A p \in Procs :
            (pc[p] = "done" /\ req[p].op \in {"register", "login"}
                /\ resp[p].status = HTTP_200_OK) =>
                /\ resp[p].token.kind = "jwt"
                /\ resp[p].token.sub = req[p].email
                /\ \E u \in users : u.email = req[p].email)
    /\ [][\A p \in Procs :
            (pc[p] = "auth" /\ pc'[p] # "auth" /\ req[p].cred.kind = "jwt"
                /\ clock < req[p].cred.exp) =>
                /\ Cardinality({u \in users : u.email = req[p].cred.sub}) = 1
                /\ current_user'[p] = Named(req[p].cred)
                /\ req[p].op = "get_me" => pc'[p] = "body"
                /\ req[p].op = "create_program" =>
                     IF Named(req[p].cred).role = "admin"
                     THEN pc'[p] = "body"
                     ELSE pc'[p] = "done" /\ resp'[p].status = HTTP_403_FORBIDDEN]_vars
    /\ [][\A p \in Procs :
            (pc[p] = "body" /\ req[p].op = "get_me" /\ pc'[p] = "done") =>
                /\ resp'[p].status = HTTP_200_OK
                /\ resp'[p].principal =
                     [Named(req[p].cred) EXCEPT !.password_hash = NoField]]_vars
    /\ [][\A p \in Procs :
            (pc[p] = "login" /\ pc'[p] = "done") =>
                IF \E u \in users : /\ u.email = req[p].email
                                    /\ u.password_hash = get_password_hash(req[p].password)
                THEN resp'[p].status = HTTP_200_OK
                ELSE /\ resp'[p].status = HTTP_401_UNAUTHORIZED
                     /\ resp'[p].token = NoToken]_vars

\* a token issued by a login a quarter of an hour after the registration was
\* presented to GET /auth/me, which answered the principal's record; another
\* login was refused
C15_Witness ==
    \E p, q \in Procs :
        /\ pc[p] = "done" /\ req[p].op = "get_me" /\ resp[p].status = HTTP_200_OK
        /\ req[p].cred.exp > ACCESS_TOKEN_EXPIRE_MINUTES * 60
        /\ resp[p].principal.email = AdminEmail
        /\ resp[p].principal.id # 0
        /\ pc[q] = "done" /\ req[q].op = "login"
        /\ resp[q].status = HTTP_401_UNAUTHORIZED

\* C16: a token issued by register or login expires ACCESS_TOKEN_EXPIRE_MINUTES
\* (30) minutes after the time of issuance; a request that presents a token at
\* or after its expiry is answered 401, whatever the endpoint, and one that
\* presents it strictly before, the principal being stored, is authenticated.
C16_TokenExpiry ==
    /\ [][\A p \in Procs :
            (pc[p] \in {"insert", "login"} /\ pc'[p] = "done"
                /\ req[p].op \in {"register", "login"}
                /\ resp'[p].status = HTTP_200_OK) =>
                resp'[p].token.exp = clock + 30 * 60]_vars
    /\ [][\A p \in Procs :
            (pc[p] = "auth" /\ pc'[p] # "auth" /\ req[p].cred.kind = "jwt") =>
                IF clock >= req[p].cred.exp
                THEN pc'[p] = "done" /\ resp'[p].status = HTTP_401_UNAUTHORIZED
                ELSE (\E u \in users : u.email = req[p].cred.sub) =>
                        /\ current_user'[p] # NoUser
                        /\ current_user'[p].email = req[p].cred.sub
                        /\ ~(pc'[p] = "done"
                             /\ resp'[p].status = HTTP_401_UNAUTHORIZED)]_vars

\* a token was refused at the very second of its expiry, its principal being
\* stored, after it had been accepted a quarter of an hour earlier
C16_Witness ==
    \E p, q \in Procs :
        /\ pc[p] = "done" /\ req[p].cred.kind = "jwt"
        /\ resp[p].status = HTTP_401_UNAUTHORIZED
        /\ clock = req[p].cred.exp
        /\ \E u \in users : u.email = req[p].cred.sub
        /\ pc[q] = "done" /\ req[q].cred = req[p].cred
        /\ resp[q].status = HTTP_200_OK

(* ---------------------- analytics and the result cache ---------------- *)
\* C17: when a co-attainment read has been answered, the result cache holds an
\* entry with the result it returned.
C17_AnalyticsCached ==
    \A p \in Procs :
        AttainmentDone(p) =>
            \E k \in DOMAIN cache : cache[k].data = resp[p].attainment

(* ------------------------------ role domain --------------------------- *)
\* C18: every stored principal has role admin, teacher or student.
C18_RoleDomain ==
    \A u \in users : u.role \in {"admin", "teacher", "student"}

(* ------------------------------ lookup misses ------------------------- *)
\* C19: a finished co-attainment read is answered 200 whatever its lookups
\* found; a fetched mark whose question_id names no stored question adds to no
\* CO (the keys are the co_ids of the stored questions of the fetched marks,
\* and a CO's totals are sums over the marks on stored questions only), and a
\* CO whose id names no stored course outcome is returned with co_code and
\* description "Unknown", every other CO with those of its course outcome.
C19_LookupMissesSkipped ==
    \A p \in Procs :
        (pc[p] = "done" /\ req[p].op = "get_student_co_attainment"
            /\ current_user[p] # NoUser) =>
            LET out == resp[p].attainment IN
            /\ resp[p].status = HTTP_200_OK
            /\ Fetched(p) = MarksOf(req[p].arg)
            /\ DOMAIN out = {c \in CoIds : FetchedOn(p, c) # {}}
            /\ \A c \in DOMAIN out :
                /\ out[c].total_marks =
                     SumOver({<<m.id, QuestionOf(m).max_marks>> : m \in FetchedOn(p, c)}, 0)
                /\ IF \E co \in db["course_outcomes"] : co.id = c
                   THEN LET co == CHOOSE x \in db["course_outcomes"] : x.id = c
                        IN  /\ out[c].co_code = co.co_code
                            /\ out[c].description = co.description
                   ELSE out[c].co_code = "Unknown" /\ out[c].description = "Unknown"

\* one mark was on a question that is not stored and one on a stored question
\* of a CO that has no course outcome: one key, labelled "Unknown"
C19_Witness ==
    \E p \in Procs :
        /\ AttainmentDone(p)
        /\ \E m \in Fetched(p) : \A q \in db["questions"] : q.id # m.question_id
        /\ DOMAIN resp[p].attainment = {22}
        /\ resp[p].attainment[22].co_code = "Unknown"
        /\ resp[p].attainment[22].description = "Unknown"
        /\ Cardinality(FetchedOn(p, 22)) = 1
        /\ Cardinality(Fetched(p)) = 2

(* ----------------------------- class membership ----------------------- *)
\* the principals with role student whose course_ids contains the course
Members(course_id) ==
    {u \in users : /\ u.role = "student"
                   /\ u.course_ids # NoCourseIds
                   /\ course_id \in u.course_ids}

\* C20: a class read aggregates over exactly the principals with role student
\* whose course_ids contains the course: every listed entry is the entry of
\* such a principal, and no other principal (of another role, of another
\* course, or stored without course_ids) is fetched or listed under any CO,
\* whatever marks it has.
C20_ClassMembership ==
    \A p \in Procs : ClassDone(p) =>
        LET out == resp[p].attainment
            members == Members(req[p].arg)
        IN  /\ Students(p) = members
            /\ DOMAIN out = UNION {OwnKeys(u.id) : u \in members}
            /\ \A c \in DOMAIN out :
                LET entries == out[c].student_attainments IN
                /\ \A n \in 1..Len(entries) :
                     \E u \in members :
                        /\ entries[n].student_name = u.name
                        /\ c \in OwnKeys(u.id)
                /\ \A u \in users \ members :
                     \A n \in 1..Len(entries) : entries[n].student_name # u.name

\* a student of another course, a self-registered student and a student of
\* the course all have marks on CO 21: only the last one is listed
C20_Witness ==
    \E p \in Procs :
        /\ ClassDone(p)
        /\ Cardinality(Members(req[p].arg)) = 1
        /\ \E u \in users : /\ u.role = "student" /\ u.course_ids = NoCourseIds
                            /\ 21 \in OwnKeys(u.id)
        /\ \E u \in users : /\ u.role = "student" /\ u.course_ids = {2}
                            /\ 21 \in OwnKeys(u.id)
        /\ 21 \in DOMAIN resp[p].attainment
        /\ Len(resp[p].attainment[21].student_attainments) = 1

(* ------------------------ writes and the cache ------------------------ *)
\* C21: a step of a write request changes the cache only when it is the
\* invalidation of a successful POST /program-outcomes or POST /admin/teachers,
\* which removes the one key "program_outcomes:all" or "admin_teachers:all" and
\* leaves every other entry as it was; every other step of every write
\* (creating a program, course, course outcome, CO-PO mapping, exam, question,
\* marks or student, registering a principal) leaves the whole cache unchanged.
C21_WritesAndCache ==
    [][\A p \in Procs :
        (req[p].op \in WriteOps /\ req'[p] = req[p] /\ pc'[p] # pc[p]) =>
            LET k == IF req[p].op = "create_program_outcome"
                     THEN <<"program_outcomes", [kind |-> "all", id |-> 0]>>
                     ELSE <<"admin_teachers", [kind |-> "all", id |-> 0]>>
            IN  IF /\ req[p].op \in {"create_program_outcome", "create_teacher"}
                   /\ pc'[p] = "done" /\ resp'[p].status = HTTP_200_OK
                THEN /\ DOMAIN cache' = DOMAIN cache \ {k}
                     /\ \A j \in DOMAIN cache' : cache'[j] = cache[j]
                ELSE cache' = cache]_vars

\* POST /admin/teachers has succeeded: the teachers' list is no longer cached
\* and the program outcomes' list still is
C21_Witness ==
    \E p, q \in Procs :
        /\ req[p].op = "create_teacher" /\ pc[p] = "done"
        /\ resp[p].status = HTTP_200_OK
        /\ req[q].op = "get_all_teachers" /\ pc[q] = "done"
        /\ resp[q].status = HTTP_200_OK
        /\ <<"admin_teachers", [kind |-> "all", id |-> 0]>> \notin DOMAIN cache
        /\ <<"program_outcomes", [kind |-> "all", id |-> 0]>> \in DOMAIN cache

(* -------------------------- bounded staleness ------------------------- *)
\* C22: a GET /programs received 60 seconds or more after a POST /programs
\* completed returns a list that contains the created program, under every
\* interleaving of the requests.
C22_StalenessBoundedByTtl ==
    \A p \in Procs :
        (req[p].op = "get_programs" /\ pc[p] = "done" /\ resp[p].status = HTTP_200_OK) =>
            \A c \in req[p].after :
                \A d \in db["programs"] :
                    (c.op = "create_program" /\ d.id = c.id
                        /\ req[p].at >= d.created_at + 60) =>
                        \E x \in resp[p].list : x.id = c.id

(* ------------------------------ every row ----------------------------- *)
\* C23: a finished co-attainment read has taken every stored row of the
\* student into account: every row whose question exists is among the rows it
\* fetched and looked up, and it fetched as many rows as are stored for the
\* student, however many they are.
C23_EveryRowCounted ==
    \A p \in Procs :
        AttainmentDone(p) =>
            /\ Resolved(req[p].arg) \subseteq Fetched(p)
            /\ Len(agg[p].student_marks) = Cardinality(MarksOf(req[p].arg))

(* ----------------------- no snapshot in aggregation ------------------- *)
\* the totals of CO c in co_performance, 0 and 0 before its first mark
Performance(a, c) ==
    IF c \in DOMAIN a.co_performance THEN a.co_performance[c]
    ELSE [total_marks |-> 0, obtained_marks |-> 0]

C25_RecordsKept ==
    /\ [][/\ users \subseteq users'
          /\ \A c \in DOMAIN db : c \in DOMAIN db' /\ db[c] \subseteq db'[c]]_vars
    /\ [](\A p \in Procs : current_user[p] # NoUser => current_user[p] \in users)

\* a question was created by an authenticated teacher: the question stored
\* before is still there, and so is the teacher
C25_Witness ==
    \E p \in Procs :
        /\ req[p].op = "create_question" /\ pc[p] = "done"
        /\ resp[p].status = HTTP_200_OK
        /\ \E d \in db["questions"] : d.id = resp[p].id /\ d.created_at = 0
        /\ [id |-> 11, co_id |-> 21, max_marks |-> 20, created_at |-> 0] \in db["questions"]
        /\ current_user[p].role = "teacher" /\ current_user[p] \in users

(* ------------------------- the cache and the gate --------------------- *)
\* the cached endpoints behind get_current_user or require_role
GatedCachedReads == {"get_programs", "get_courses", "get_courses_by_program",
                     "get_course_outcomes_by_course", "get_program_outcomes",
                     "get_all_students", "get_all_teachers"}

\* C26: on a cached endpoint behind the gate the cache is consulted only for a
\* request whose credential resolved to a stored principal, of role admin on
\* the two admin listings; a request that was answered 401 or 403 never
\* consulted the cache and carries no list, whether its key is cached or not;
\* so what is stored under "admin_students:all" or "admin_teachers:all" is
\* returned to admins only.
C26_CacheBehindGate ==
    /\ [][\A p \in Procs :
            (req[p].op \in GatedCachedReads /\ req'[p] = req[p] /\ pc'[p] # pc[p]
                /\ (cache' # cache \/ cached_data'[p] # cached_data[p]
                      \/ found'[p] # found[p] \/ rows'[p] # rows[p]
                      \/ resp'[p].list # resp[p].list)) =>
                /\ current_user[p] \in users
                /\ current_user[p].email = req[p].cred.sub
                /\ req[p].op \in {"get_all_students", "get_all_teachers"} =>
                     current_user[p].role = "admin"]_vars
    /\ [](\A p \in Procs :
            (req[p].op \in GatedCachedReads /\ pc[p] = "done") =>
                IF current_user[p] \in users
                   /\ (req[p].op \in {"get_all_students", "get_all_teachers"} =>
                         current_user[p].role = "admin")
                THEN resp[p].status = HTTP_200_OK
                ELSE /\ resp[p].status \in {HTTP_401_UNAUTHORIZED, HTTP_403_FORBIDDEN}
                     /\ resp[p].list = {}
                     /\ cached_data[p] = None
                     /\ found[p] = NotFound)

\* the students' list is cached, and a student who asked for it was refused
\* without it; a request without a credential was refused as well
C26_Witness ==
    \E p, q \in Procs :
        /\ req[p].op = "get_all_students" /\ pc[p] = "done"
        /\ current_user[p].role = "student"
        /\ resp[p].status = HTTP_403_FORBIDDEN /\ resp[p].list = {}
        /\ req[q].op = "get_all_students" /\ pc[q] = "done"
        /\ req[q].cred.kind = "missing" /\ resp[q].list = {}
        /\ <<"admin_students", [kind |-> "all", id |-> 0]>> \in DOMAIN cache
        /\ cache[<<"admin_students", [kind |-> "all", id |-> 0]>>].data # {}

\* the password digest a document carries, if it describes a principal
DigestOf(d) == IF "password_hash" \in DOMAIN d THEN d.password_hash ELSE NoField

\* C27: no response and no cache entry contains a principal's password digest:
\* the principal returned by GET /auth/me, POST /admin/students and
\* POST /admin/teachers, every element of a returned list, and every element
\* of every value in the cache, is without the password_hash field.
C27_NoDigestLeaves ==
    /\ \A p \in Procs :
          /\ resp[p].principal.password_hash = NoField
          /\ \A d \in resp[p].list : DigestOf(d) = NoField
    /\ \A k \in DOMAIN cache : \A d \in cache[k].data : DigestOf(d) = NoField

\* a credential that names a stored principal: a server-signed token, not
\* expired, whose subject is the email of a stored principal
ValidCredential(cred) ==
    /\ cred.kind = "jwt" /\ cred.exp > clock
    /\ cred.sub # NoSub
    /\ \E u \in users : u.email = cred.sub

\* the requests that are neither idle nor a register or login
Unresolved(p) ==
    /\ req[p].op \notin {"none", "register", "login"}
    /\ ~ValidCredential(req[p].cred)

PublicKey == <<"public_programs", [kind |-> "all", id |-> 0]>>

\* C28: every operation other than register and login requires a resolved
\* principal: a request without a valid credential is answered no data read
\* from the store or the cache, and none of its steps changes the store or
\* the cache.
C28_CredentialRequired ==
    /\ [][\A p \in Procs :
            (Unresolved(p) /\ req'[p] = req[p] /\ pc'[p] # pc[p]) =>
                /\ users' = users /\ db' = db /\ cache' = cache]_vars
    /\ [](\A p \in Procs :
            Unresolved(p) =>
                /\ resp[p].list = {}
                /\ cached_data[p] = None /\ found[p] = NotFound /\ rows[p] = {}
                /\ pc[p] = "done" =>
                     resp[p].status \in {HTTP_401_UNAUTHORIZED, HTTP_403_FORBIDDEN})

\* C28 as the code has it: the same for every operation other than register,
\* login and GET /public/programs; a request to GET /public/programs needs no
\* credential, is answered programs only, changes no stored record and no
\* cache entry other than the one under "public_programs:all".
C28_CredentialRequiredButPublic ==
    /\ [][\A p \in Procs :
            (Unresolved(p) /\ req'[p] = req[p] /\ pc'[p] # pc[p]) =>
                /\ users' = users /\ db' = db
                /\ IF req[p].op = "get_public_programs"
                   THEN \A k \in (DOMAIN cache \cup DOMAIN cache') \ {PublicKey} :
                            /\ k \in DOMAIN cache /\ k \in DOMAIN cache'
                            /\ cache'[k] = cache[k]
                   ELSE cache' = cache]_vars
    /\ [](\A p \in Procs :
            Unresolved(p) =>
                IF req[p].op = "get_public_programs"
                THEN /\ resp[p].list \subseteq db["programs"]
                     /\ pc[p] = "done" => resp[p].status = HTTP_200_OK
                ELSE /\ resp[p].list = {}
                     /\ cached_data[p] = None /\ found[p] = NotFound /\ rows[p] = {}
                     /\ pc[p] = "done" =>
                          resp[p].status \in {HTTP_401_UNAUTHORIZED, HTTP_403_FORBIDDEN})

\* GET /public/programs without a credential was answered the stored programs
\* and cached them, while GET /programs without a credential was refused and
\* POST /programs with the token of an unknown email stored nothing
C28_Witness ==
    \E p, q \in Procs :
        /\ req[p].op = "get_public_programs" /\ pc[p] = "done"
        /\ req[p].cred.kind = "missing"
        /\ resp[p].status = HTTP_200_OK /\ resp[p].list # {}
        /\ PublicKey \in DOMAIN cache
        /\ req[q].op \in {"get_programs", "create_program"} /\ pc[q] = "done"
        /\ ~ValidCredential(req[q].cred)
        /\ resp[q].status \in {HTTP_401_UNAUTHORIZED, HTTP_403_FORBIDDEN}
        /\ resp[q].list = {}

==========================================================================
